---- MODULE Spec2Model ----
(***************************************************************************)
(* dataglimpse: schema and relationship inference over the in-browser      *)
(* SQLite store.                                                           *)
(*                                                                         *)
(* Names (table names, column names, CSV cells) are sequences of one-      *)
(* character strings, so that the regular expressions and the string       *)
(* normalisations of the source are computed character by character.       *)
(* A stored SQL value is a set with at most one element: {} is NULL and    *)
(* {n} is the integer n.  On integers the text comparison                  *)
(* CAST(a AS TEXT) = CAST(b AS TEXT) and the plain comparison a = b agree, *)
(* both are equality of the non-empty sets.                                *)
(***************************************************************************)
EXTENDS Integers, Sequences, FiniteSets, Bags, TLC

VARIABLES
  db,        \* the SQLite store
  result,    \* what the last relationship inference returned
  csv,       \* the parsed CSV file being ingested
  inferred,  \* what the last schema inference returned
  listed,    \* the table names the page listed last
  thrown,    \* the error the last call was rejected with
  hook,      \* the state of the React hook at work and of its async calls
  conn       \* the module-level connection state of lib/sqlite.ts

vars == <<db, result, csv, inferred, listed, thrown, hook, conn>>

\* no hook is mounted, the connection module is not loaded
NoHook == [name |-> "none"]
NoConn == [name |-> "none"]

(***************************************************************************)
(* Bounds of the model.                                                    *)
(***************************************************************************)
MaxChildRows == 5
MaxParentRows == 2
MaxCsvRows == 4
MaxWideTables == 32
HeadRows == 18
MaxHeaders == 3

(***************************************************************************)
(* Strings.                                                                *)
(***************************************************************************)
UpperChars == <<"A","B","C","D","E","F","G","H","I","J","K","L","M",
                "N","O","P","Q","R","S","T","U","V","W","X","Y","Z">>
LowerChars == <<"a","b","c","d","e","f","g","h","i","j","k","l","m",
                "n","o","p","q","r","s","t","u","v","w","x","y","z">>
DigitChars == <<"0","1","2","3","4","5","6","7","8","9">>

UpperSet == {UpperChars[i] : i \in 1..26}
LowerSet == {LowerChars[i] : i \in 1..26}
DigitSet == {DigitChars[i] : i \in 1..10}
LowerOf == [c \in UpperSet |-> LowerChars[CHOOSE i \in 1..26 : UpperChars[i] = c]]

IsUpper(c) == c \in UpperSet
IsLower(c) == c \in LowerSet
IsDigit(c) == c \in DigitSet
IsSpace(c) == c \in {" ", "\t", "\n", "\r"}

toLowerChar(c) == IF IsUpper(c) THEN LowerOf[c] ELSE c

toLowerCase(s) == [i \in 1..Len(s) |-> toLowerChar(s[i])]

endsWith(s, suf) ==
  /\ Len(s) >= Len(suf)
  /\ SubSeq(s, Len(s) - Len(suf) + 1, Len(s)) = suf

startsWith(s, pre) ==
  /\ Len(s) >= Len(pre)
  /\ SubSeq(s, 1, Len(pre)) = pre

\* s.slice(0, -n)
dropLast(s, n) == IF Len(s) <= n THEN <<>> ELSE SubSeq(s, 1, Len(s) - n)

\* the elements of a finite set of integers, added up
RECURSIVE SumOver(_, _)
SumOver(S, f) ==
  IF S = {} THEN 0
  ELSE LET x == CHOOSE y \in S : TRUE IN f[x] + SumOver(S \ {x}, f)

\* Array.prototype.find: the first element of a sequence that satisfies Test
FirstIndex(seq, Test(_)) ==
  IF \E i \in 1..Len(seq) : Test(seq[i])
  THEN CHOOSE i \in 1..Len(seq) : Test(seq[i]) /\ \A j \in 1..(i-1) : ~Test(seq[j])
  ELSE 0

\* Numbers that are quotients of two counts are kept as pairs <<num, den>>,
\* den > 0, and compared by cross-multiplication.
Geq(a, b) == a[1] * b[2] >= b[1] * a[2]
Gt(a, b) == a[1] * b[2] > b[1] * a[2]

(***************************************************************************)
(* The store: a sequence of tables in name order (listTables orders by     *)
(* name).  A table has a name, its columns in declaration order (name, pk  *)
(* position as PRAGMA table_info reports it, notnull flag, and the values  *)
(* the model inserts into it), its indexes as PRAGMA index_list reports    *)
(* them, and a bag of rows; a row is a tuple of values, one per column.    *)
(***************************************************************************)
NULL == {}

Col(n, pk, nn, dom) == [name |-> n, pk |-> pk, notnull |-> nn, dom |-> dom]
Idx(u, cs) == [unique |-> u, cols |-> cs]
Tbl(n, cs, ix, mx) == [name |-> n, cols |-> cs, idx |-> ix, maxRows |-> mx, rows |-> EmptyBag]

HasTable(d, name) == \E i \in 1..Len(d) : d[i].name = name
TableOf(d, name) == d[CHOOSE i \in 1..Len(d) : d[i].name = name]
ColIndex(t, cname) == CHOOSE i \in 1..Len(t.cols) : t.cols[i].name = cname
HasCol(t, cname) == \E i \in 1..Len(t.cols) : t.cols[i].name = cname

\* SELECT name FROM sqlite_schema ... ORDER BY name
listTables(d) == [i \in 1..Len(d) |-> d[i].name]

\* SELECT COUNT(*) FROM t
countRows(t) == BagCardinality(t.rows)

\* SELECT COUNT(DISTINCT c) FROM t WHERE c IS NOT NULL
countDistinctNonNull(t, ci) ==
  Cardinality({r[ci] : r \in BagToSet(t.rows)} \ {NULL})

\* PRAGMA table_info(t): the columns of t, none when t does not exist
tableInfo(d, name) == IF HasTable(d, name) THEN TableOf(d, name).cols ELSE <<>>

\* PRAGMA index_list(t)
indexList(d, name) == IF HasTable(d, name) THEN TableOf(d, name).idx ELSE <<>>

(***************************************************************************)
(* The coverage join of both inferers:                                     *)
(*   SELECT SUM(CASE WHEN p.key IS NOT NULL THEN 1 ELSE 0 END) AS matched, *)
(*          COUNT(c.col) AS total                                          *)
(*   FROM child c LEFT JOIN parent p ON c.col = p.key                      *)
(*   WHERE c.col IS NOT NULL                                               *)
(* A child row with n >= 1 parent rows of equal key gives n joined rows,   *)
(* all counted in matched and in total; a child row with none gives one    *)
(* joined row, counted in total only.                                      *)
(***************************************************************************)
joinMatches(p, ki, v) ==
  LET PR == BagToSet(p.rows)
  IN SumOver({r \in PR : r[ki] # NULL /\ r[ki] = v},
             [r \in PR |-> CopiesIn(r, p.rows)])

\* a variant that counts each distinct matching child row once
leftJoinCountsDistinct(c, ci, p, ki) ==
  LET CR == {r \in BagToSet(c.rows) : r[ci] # NULL}
      n(r) == joinMatches(p, ki, r[ci])
  IN [matched |-> Cardinality({r \in CR : n(r) > 0}),
      total   |-> SumOver(CR, [r \in CR |->
                     CopiesIn(r, c.rows) * (IF n(r) = 0 THEN 1 ELSE n(r))])]

leftJoinCounts(c, ci, p, ki) ==
  LET CR == {r \in BagToSet(c.rows) : r[ci] # NULL}
      n(r) == joinMatches(p, ki, r[ci])
  IN [matched |-> SumOver(CR, [r \in CR |-> CopiesIn(r, c.rows) * n(r)]),
      total   |-> SumOver(CR, [r \in CR |->
                     CopiesIn(r, c.rows) * (IF n(r) = 0 THEN 1 ELSE n(r))])]

(***************************************************************************)
(* relationsService: inferRelations and getParentKey.                      *)
(***************************************************************************)
MIN_FK_COVERAGE == <<8, 10>>

\* s.endsWith("ies") ? s.slice(0,-3)+"y" : s.endsWith("ses") ? s.slice(0,-2)
\*   : s.endsWith("s") ? s.slice(0,-1) : s
singular(s) ==
  IF endsWith(s, <<"i","e","s">>) THEN dropLast(s, 3) \o <<"y">>
  ELSE IF endsWith(s, <<"s","e","s">>) THEN dropLast(s, 2)
  ELSE IF endsWith(s, <<"s">>) THEN dropLast(s, 1)
  ELSE s

NoKey == <<>>
KeyOk(k) == [err |-> FALSE, key |-> k]
KeyErr == [err |-> TRUE, key |-> NoKey]

\* The key column of a parent table; NoKey (a falsy name) when there is none.
\* SELECT COUNT(*) FROM a table that does not exist throws.
getParentKey(d, table) ==
  LET cols == tableInfo(d, table)
      iPk == FirstIndex(cols, LAMBDA c : c.pk = 1)
      iId == FirstIndex(cols, LAMBDA c : toLowerCase(c.name) = <<"i","d">>)
      pk == IF iPk > 0 THEN cols[iPk].name
            ELSE IF iId > 0 THEN cols[iId].name ELSE NoKey
      idx == indexList(d, table)
      iU == FirstIndex(idx, LAMBDA i : i.unique = 1)
      info == IF iU > 0 THEN idx[iU].cols ELSE <<>>
  IN IF pk # NoKey THEN KeyOk(pk)
     ELSE IF iU > 0 /\ Len(info) > 0 /\ info[1] # NoKey THEN KeyOk(info[1])
     ELSE IF ~HasTable(d, table) THEN KeyErr
     ELSE LET t == TableOf(d, table)
              total == countRows(t)
              iD == IF total > 0
                    THEN FirstIndex([i \in 1..Len(cols) |-> i],
                                    LAMBDA i : countDistinctNonNull(t, i) = total)
                    ELSE 0
          IN IF iD > 0 THEN KeyOk(cols[iD].name) ELSE KeyOk(NoKey)

\* columns.filter(c => /_id$/i.test(c.name))
relIsFkCol(name) == endsWith(toLowerCase(name), <<"_","i","d">>)

\* col.name.toLowerCase().replace(/_id$/i, "")
relBase(name) == dropLast(toLowerCase(name), 3)

\* the name rule of allTables.filter
relNameMatch(tl, base) ==
  \/ tl = base
  \/ tl = base \o <<"s">>
  \/ tl = base \o <<"e","s">>
  \/ singular(tl) = base
  \/ startsWith(tl, base)
  \/ endsWith(tl, base)

relCandidates(table, colName, allTables) ==
  SelectSeq(allTables,
            LAMBDA t : /\ toLowerCase(t) # toLowerCase(table)
                       /\ relNameMatch(toLowerCase(t), relBase(colName)))

\* cov = total ? matched / total : 0
relCoverage(q) == IF q.total # 0 THEN <<q.matched, q.total>> ELSE <<0, 1>>

\* a variant that lets a later candidate of equal coverage replace the best
relTakesTies(cov, best) ==
  /\ Geq(cov, MIN_FK_COVERAGE)
  /\ (best.none \/ Geq(cov, best.coverage))

\* cov >= MIN_FK_COVERAGE && (!best || cov > best.coverage)
relTakes(cov, best) ==
  /\ Geq(cov, MIN_FK_COVERAGE)
  /\ (best.none \/ Gt(cov, best.coverage))

NoBest == [none |-> TRUE, err |-> FALSE, parent |-> <<>>, pk |-> <<>>,
           coverage |-> <<0, 1>>, matched |-> 0, total |-> 0]

\* for (const parent of candidates) { ... }: the best candidate of one column
RECURSIVE relBest(_, _, _, _, _)
relBest(d, table, colName, cands, best) ==
  IF cands = <<>> THEN best
  ELSE LET parent == Head(cands)
           k == getParentKey(d, parent)
       IN IF k.err THEN [best EXCEPT !.err = TRUE]
          ELSE IF k.key = NoKey THEN relBest(d, table, colName, Tail(cands), best)
          ELSE IF ~HasTable(d, table) \/ ~HasTable(d, parent)
               THEN [best EXCEPT !.err = TRUE]
          ELSE LET c == TableOf(d, table)
                   p == TableOf(d, parent)
                   q == leftJoinCounts(c, ColIndex(c, colName), p, ColIndex(p, k.key))
                   cov == relCoverage(q)
               IN relBest(d, table, colName, Tail(cands),
                          IF relTakes(cov, best)
                          THEN [none |-> FALSE, err |-> FALSE, parent |-> parent,
                                pk |-> k.key, coverage |-> cov,
                                matched |-> q.matched, total |-> q.total]
                          ELSE best)

\* relations.push({...}): the Relation, kept with the coverage and the counts
\* of the query that chose its parent (direction and joinExample are left out)
Rel(table, colName, b) ==
  [fromTable |-> table, fromColumn |-> colName, toTable |-> b.parent,
   toColumn |-> b.pk, coverage |-> b.coverage, matched |-> b.matched,
   total |-> b.total]

Ok(list) == [err |-> FALSE, list |-> list]
Failed == [err |-> TRUE, list |-> <<>>]

\* for (const col of fkCols) { ... }: a rejected promise leaves no list
RECURSIVE relLoop(_, _, _, _, _)
relLoop(d, table, fkCols, allTables, relations) ==
  IF fkCols = <<>> THEN Ok(relations)
  ELSE LET col == Head(fkCols)
           b == relBest(d, table, col, relCandidates(table, col, allTables), NoBest)
       IN IF b.err THEN Failed
          ELSE relLoop(d, table, Tail(fkCols), allTables,
                       IF b.none THEN relations
                       ELSE Append(relations, Rel(table, col, b)))

inferRelations(d, table, columns, allTables) ==
  LET fkCols == SelectSeq(columns, LAMBDA c : relIsFkCol(c.name))
  IN IF fkCols = <<>> THEN Ok(<<>>)
     ELSE relLoop(d, table, [i \in 1..Len(fkCols) |-> fkCols[i].name], allTables, <<>>)

(***************************************************************************)
(* analytics: inferFkEdges.                                                *)
(***************************************************************************)
MIN_COVERAGE == <<8, 10>>
EDGE_LIMIT == 30

\* s.endsWith("s") ? s.slice(0, -1) : s
singularize(s) == IF endsWith(s, <<"s">>) THEN dropLast(s, 1) ELSE s

\* a variant that asks for the underscore: /^(.*?)(?:_id)$/i
fkMatchesSnake(col) == endsWith(toLowerCase(col), <<"_","i","d">>)

\* col.match(/^(.*?)(?:_?id)$/i)
fkMatches(col) == endsWith(toLowerCase(col), <<"i","d">>)

\* m[1]: the lazy group leaves the longest suffix to (?:_?id)
fkGroup1(col) ==
  IF endsWith(toLowerCase(col), <<"_","i","d">>) THEN dropLast(col, 3)
  ELSE dropLast(col, 2)

\* s.replace(/[_\s]+$/g, "")
RECURSIVE stripTrailing(_)
stripTrailing(s) ==
  IF s # <<>> /\ (s[Len(s)] = "_" \/ IsSpace(s[Len(s)]))
  THEN stripTrailing(dropLast(s, 1)) ELSE s

fkBase(col) == toLowerCase(stripTrailing(fkGroup1(col)))

\* /^id$/i.test(col)
isBareId(col) == toLowerCase(col) = <<"i","d">>

\* a column the loop goes on with: it matches, is not a bare id, has a base
fkIsCandidate(col) == fkMatches(col) /\ ~isBareId(col) /\ fkBase(col) # <<>>

\* the elements of a JavaScript Set built from a list, in insertion order
RECURSIVE Dedupe(_)
Dedupe(seq) ==
  IF seq = <<>> THEN <<>>
  ELSE LET init == Dedupe(dropLast(seq, 1))
           x == seq[Len(seq)]
       IN IF \E i \in 1..Len(init) : init[i] = x THEN init ELSE Append(init, x)

\* new Set([base, sg, `${base}s`, `${sg}s`])
fkVariants(base) ==
  LET sg == singularize(base)
  IN Dedupe(<<base, sg, base \o <<"s">>, sg \o <<"s">> >>)

\* lowerToOrig.get(v): the last table of that lower-cased name
lowerToOrig(tables, v) ==
  tables[CHOOSE i \in 1..Len(tables) :
           /\ toLowerCase(tables[i]) = v
           /\ \A j \in (i+1)..Len(tables) : toLowerCase(tables[j]) # v]

\* for (const v of variants) if (tableLowerSet.has(v)) parents.push(...)
fkParents(tables, col) ==
  LET vs == SelectSeq(fkVariants(fkBase(col)),
                      LAMBDA v : \E i \in 1..Len(tables) : toLowerCase(tables[i]) = v)
  IN [i \in 1..Len(vs) |-> lowerToOrig(tables, vs[i])]

\* pcols.find(pc => pc.pk === 1)?.name ?? "id"
fkPkCol(d, parent) ==
  LET pcols == tableInfo(d, parent)
      iPk == FirstIndex(pcols, LAMBDA c : c.pk = 1)
  IN IF iPk > 0 THEN pcols[iPk].name ELSE <<"i","d">>

\* SQLite resolves a column name without regard to case
HasColCI(t, cname) ==
  \E i \in 1..Len(t.cols) : toLowerCase(t.cols[i].name) = toLowerCase(cname)
ColIndexCI(t, cname) ==
  CHOOSE i \in 1..Len(t.cols) : toLowerCase(t.cols[i].name) = toLowerCase(cname)

\* coverage >= MIN_COVERAGE
fkAccepts(matched, total) == Geq(<<matched, total>>, MIN_COVERAGE)

NoEdge == [none |-> TRUE, err |-> FALSE, edge |-> <<>>]

Edge(child, parent, col, q) ==
  [source |-> child, target |-> parent, col |-> col,
   coverage |-> <<q.matched, q.total>>, matched |-> q.matched, total |-> q.total]

\* for (const parent of parents) { ... break; }: the edge of one column.
\* The coverage query throws when a table or the key column is not there.
RECURSIVE fkFirst(_, _, _, _)
fkFirst(d, child, col, parents) ==
  IF parents = <<>> THEN NoEdge
  ELSE LET parent == Head(parents)
           pkCol == fkPkCol(d, parent)
       IN IF \/ ~HasTable(d, child) \/ ~HasTable(d, parent)
             \/ ~HasColCI(TableOf(d, parent), pkCol)
          THEN [NoEdge EXCEPT !.err = TRUE]
          ELSE LET c == TableOf(d, child)
                   p == TableOf(d, parent)
                   q == leftJoinCounts(c, ColIndex(c, col), p, ColIndexCI(p, pkCol))
               IN IF q.total = 0 THEN fkFirst(d, child, col, Tail(parents))
                  ELSE IF fkAccepts(q.matched, q.total)
                       THEN [none |-> FALSE, err |-> FALSE,
                             edge |-> Edge(child, parent, col, q)]
                       ELSE fkFirst(d, child, col, Tail(parents))

\* every (child, column) in the order of the two outer loops
RECURSIVE fkColumns(_, _)
fkColumns(d, tables) ==
  IF tables = <<>> THEN <<>>
  ELSE LET cols == tableInfo(d, Head(tables))
       IN [i \in 1..Len(cols) |-> <<Head(tables), cols[i].name>>]
          \o fkColumns(d, Tail(tables))

RECURSIVE fkLoop(_, _, _, _)
fkLoop(d, tables, pairs, edges) ==
  IF pairs = <<>> THEN Ok(edges)
  ELSE LET child == Head(pairs)[1]
           col == Head(pairs)[2]
       IN IF ~fkIsCandidate(col) THEN fkLoop(d, tables, Tail(pairs), edges)
          ELSE LET e == fkFirst(d, child, col, fkParents(tables, col))
               IN IF e.err THEN Failed
                  ELSE fkLoop(d, tables, Tail(pairs),
                              IF e.none THEN edges ELSE Append(edges, e.edge))

\* (a, b) => b.coverage - a.coverage || b.matched - a.matched, negative:
\* a sorts before b
fkBefore(a, b) ==
  \/ Gt(a.coverage, b.coverage)
  \/ (~Gt(b.coverage, a.coverage) /\ a.matched > b.matched)

\* Array.prototype.sort is stable: an element goes behind the last one that
\* it does not sort before
insertSorted(sorted, e) ==
  LET k == IF \E i \in 1..Len(sorted) : ~fkBefore(e, sorted[i])
           THEN CHOOSE i \in 1..Len(sorted) :
                  /\ ~fkBefore(e, sorted[i])
                  /\ \A j \in (i+1)..Len(sorted) : fkBefore(e, sorted[j])
           ELSE 0
  IN SubSeq(sorted, 1, k) \o <<e>> \o SubSeq(sorted, k + 1, Len(sorted))

RECURSIVE sortEdges(_)
sortEdges(edges) ==
  IF edges = <<>> THEN <<>>
  ELSE insertSorted(sortEdges(dropLast(edges, 1)), edges[Len(edges)])

\* a variant that cuts one element late
fkSliceLate(edges) ==
  SubSeq(edges, 1, IF Len(edges) < EDGE_LIMIT + 1 THEN Len(edges) ELSE EDGE_LIMIT + 1)

\* .slice(0, 30)
fkSlice(edges) == SubSeq(edges, 1, IF Len(edges) < EDGE_LIMIT THEN Len(edges) ELSE EDGE_LIMIT)

\* a variant that catches the error and returns what it has
inferFkEdgesSwallows(d, tables) ==
  Ok(fkSlice(sortEdges(fkLoop(d, tables, fkColumns(d, tables), <<>>).list)))

inferFkEdges(d, tables) ==
  LET r == fkLoop(d, tables, fkColumns(d, tables), <<>>)
  IN IF r.err THEN Failed ELSE Ok(fkSlice(sortEdges(r.list)))

(***************************************************************************)
(* sqliteMeta: getUniqueColumns, getTablesMeta, inferForeignKeys.          *)
(***************************************************************************)
\* the single-column unique indexes' columns, and the pk === 1 columns
getUniqueColumns(d, table) ==
  LET idx == indexList(d, table)
      ti == tableInfo(d, table)
  IN {idx[i].cols[1] : i \in {j \in 1..Len(idx) :
                                 /\ idx[j].unique = 1
                                 /\ Len(idx[j].cols) = 1
                                 /\ idx[j].cols[1] # <<>>}}
     \cup {ti[i].name : i \in {j \in 1..Len(ti) : ti[j].pk = 1}}

ColumnMeta(r, uniques) ==
  [name |-> r.name,
   uniqueNoNull |-> (r.name \in uniques /\ r.notnull = 1),
   isPk |-> (r.pk = 1)]

getTablesMeta(d) ==
  LET names == listTables(d)
  IN [i \in 1..Len(names) |->
        LET ti == tableInfo(d, names[i])
            uniques == getUniqueColumns(d, names[i])
        IN [name |-> names[i],
            columns |-> [k \in 1..Len(ti) |-> ColumnMeta(ti[k], uniques)]]]

defaultInferOptions ==
  [nameHintMinSim |-> <<8, 10>>, excludeBareId |-> TRUE, allowSelfReference |-> FALSE]

IsAlnum(c) == IsLower(c) \/ IsDigit(c)

\* s.toLowerCase().replace(/[^a-z0-9]/g, "") and the three suffix rules
normalize(s) ==
  LET t == SelectSeq(toLowerCase(s), IsAlnum)
      t1 == IF endsWith(t, <<"i","e","s">>) THEN dropLast(t, 3) \o <<"y">> ELSE t
      t2 == IF \/ endsWith(t1, <<"s","s","e","s">>) \/ endsWith(t1, <<"x","e","s">>)
               \/ endsWith(t1, <<"z","e","s">>) \/ endsWith(t1, <<"c","h","e","s">>)
               \/ endsWith(t1, <<"s","h","e","s">>)
            THEN dropLast(t1, 2) ELSE t1
  IN IF endsWith(t2, <<"s">>) THEN dropLast(t2, 1) ELSE t2

bigrams(s) ==
  IF Len(s) < 2 THEN {s} ELSE {SubSeq(s, i, i + 1) : i \in 1..(Len(s) - 1)}

\* a variant that divides by twice the size of the first set
diceSimOfFirst(a, b) ==
  LET A == bigrams(a)
      B == bigrams(b)
  IN <<2 * Cardinality(A \cap B), 2 * Cardinality(A)>>

\* denom === 0 ? 0 : (2 * inter) / denom
diceSim(a, b) ==
  LET A == bigrams(a)
      B == bigrams(b)
      inter == Cardinality(A \cap B)
      denom == Cardinality(A) + Cardinality(B)
  IN IF denom = 0 THEN <<0, 1>> ELSE <<2 * inter, denom>>

\* lc.match(/^(.+)_id$/)
fkeyMatches(name) ==
  LET lc == toLowerCase(name) IN Len(lc) >= 4 /\ endsWith(lc, <<"_","i","d">>)

\* a column the loop goes on with
fkeyIsCandidate(name, o) ==
  /\ ~(o.excludeBareId /\ toLowerCase(name) = <<"i","d">>)
  /\ fkeyMatches(name)

fkeyBase(name) == normalize(dropLast(toLowerCase(name), 3))

\* the table's key candidates, in column order
uniqueMapOf(t) ==
  LET cs == SelectSeq(t.columns,
                      LAMBDA c : c.isPk \/ toLowerCase(c.name) = <<"i","d">> \/ c.uniqueNoNull)
  IN Dedupe([i \in 1..Len(cs) |-> cs[i].name])

\* if (!o.allowSelfReference && cand.table === t.name) continue
fkeySkipsSelf(o, candTable, tName) == ~o.allowSelfReference /\ candTable = tName

\* for (const cand of normNames) { ... }: the best-scoring table
RECURSIVE fkeyBest(_, _, _, _, _)
fkeyBest(o, tName, base, metas, best) ==
  IF metas = <<>> THEN best
  ELSE LET cand == Head(metas)
           score == diceSim(base, normalize(cand.name))
       IN fkeyBest(o, tName, base, Tail(metas),
            IF fkeySkipsSelf(o, cand.name, tName) THEN best
            ELSE IF Geq(score, o.nameHintMinSim) /\ (best.none \/ Gt(score, best.score))
                 THEN [none |-> FALSE, toTable |-> cand.name, score |-> score]
                 ELSE best)

NoScore == [none |-> TRUE, toTable |-> <<>>, score |-> <<0, 1>>]

\* uniqs.has("id") ? "id" : Array.from(uniqs)[0]
fkeyToColumn(uniqs) ==
  IF \E i \in 1..Len(uniqs) : uniqs[i] = <<"i","d">> THEN <<"i","d">> ELSE uniqs[1]

FKTuple(t, c, toTable, toColumn) ==
  [fromTable |-> t, fromColumn |-> c, toTable |-> toTable, toColumn |-> toColumn]

\* every (table, column) in the order of the two loops
RECURSIVE fkeyColumns(_)
fkeyColumns(metas) ==
  IF metas = <<>> THEN <<>>
  ELSE [i \in 1..Len(Head(metas).columns) |->
          <<Head(metas).name, Head(metas).columns[i].name>>]
       \o fkeyColumns(Tail(metas))

RECURSIVE fkeyLoop(_, _, _, _)
fkeyLoop(o, metas, pairs, fks) ==
  IF pairs = <<>> THEN fks
  ELSE LET t == Head(pairs)[1]
           c == Head(pairs)[2]
           best == fkeyBest(o, t, fkeyBase(c), metas, NoScore)
           uniqs == IF best.none THEN <<>>
                    ELSE uniqueMapOf(metas[CHOOSE i \in 1..Len(metas) :
                                             metas[i].name = best.toTable])
       IN fkeyLoop(o, metas, Tail(pairs),
            IF ~fkeyIsCandidate(c, o) \/ best.none \/ uniqs = <<>> THEN fks
            ELSE Append(fks, FKTuple(t, c, best.toTable, fkeyToColumn(uniqs))))

inferForeignKeys(metas, o) == Ok(fkeyLoop(o, metas, fkeyColumns(metas), <<>>))

(***************************************************************************)
(* CSV ingestion: the value patterns, guessAffinity and the schema part of *)
(* importCsv (lib/sqlite), inferSchema (the dashboard import).  A CSV cell *)
(* is a string; a row is a tuple of cells, one per header.                 *)
(***************************************************************************)
IsSign(c) == c \in {"+", "-"}
AllDigits(s) == \A i \in 1..Len(s) : IsDigit(s[i])

\* String.prototype.trim
RECURSIVE trimStart(_)
trimStart(s) == IF s # <<>> /\ IsSpace(s[1]) THEN trimStart(Tail(s)) ELSE s
RECURSIVE trimEnd(_)
trimEnd(s) == IF s # <<>> /\ IsSpace(s[Len(s)]) THEN trimEnd(dropLast(s, 1)) ELSE s
trim(s) == trimEnd(trimStart(s))

unsigned(s) == IF s # <<>> /\ IsSign(s[1]) THEN Tail(s) ELSE s

\* /^[+-]?\d+$/
intRe(s) == unsigned(s) # <<>> /\ AllDigits(unsigned(s))

\* \d+\.\d*|\.\d+|\d+
mantissaRe(m) ==
  IF \E i \in 1..Len(m) : m[i] = "."
  THEN LET k == CHOOSE i \in 1..Len(m) : m[i] = "." /\ \A j \in 1..(i-1) : m[j] # "."
           a == SubSeq(m, 1, k - 1)
           b == SubSeq(m, k + 1, Len(m))
       IN AllDigits(a) /\ AllDigits(b) /\ (a # <<>> \/ b # <<>>)
  ELSE m # <<>> /\ AllDigits(m)

\* /^[+-]?(?:\d+\.\d*|\.\d+|\d+)(?:[eE][+-]?\d+)?$/
realRe(s) ==
  LET u == unsigned(s)
  IN IF \E i \in 1..Len(u) : u[i] \in {"e", "E"}
     THEN LET k == CHOOSE i \in 1..Len(u) :
                     u[i] \in {"e", "E"} /\ \A j \in 1..(i-1) : u[j] \notin {"e", "E"}
          IN mantissaRe(SubSeq(u, 1, k - 1)) /\ intRe(SubSeq(u, k + 1, Len(u)))
     ELSE mantissaRe(u)

boolTrue == {<<"t","r","u","e">>, <<"1">>, <<"y","e","s">>, <<"y">>, <<"t">>}
boolFalse == {<<"f","a","l","s","e">>, <<"0">>, <<"n","o">>, <<"n">>, <<"f">>}

\* \d{4}-\d{2}-\d{2}
datePartRe(s) ==
  /\ Len(s) = 10
  /\ \A i \in {1,2,3,4,6,7,9,10} : IsDigit(s[i])
  /\ s[5] = "-" /\ s[8] = "-"

\* [ T]\d{2}:\d{2}(?::\d{2})?
timePartRe(s) ==
  /\ Len(s) \in {6, 9}
  /\ s[1] \in {" ", "T"}
  /\ IsDigit(s[2]) /\ IsDigit(s[3]) /\ s[4] = ":" /\ IsDigit(s[5]) /\ IsDigit(s[6])
  /\ (Len(s) = 9 => s[7] = ":" /\ IsDigit(s[8]) /\ IsDigit(s[9]))

\* Z|[+-]\d{2}:\d{2}
zonePartRe(s) ==
  \/ s = <<"Z">>
  \/ /\ Len(s) = 6
     /\ IsSign(s[1])
     /\ IsDigit(s[2]) /\ IsDigit(s[3]) /\ s[4] = ":" /\ IsDigit(s[5]) /\ IsDigit(s[6])

\* /^\d{4}-\d{2}-\d{2}(?:[ T]\d{2}:\d{2}(?::\d{2})?)?(?:Z|[+-]\d{2}:\d{2})?$/
dateRe(s) ==
  /\ Len(s) >= 10
  /\ datePartRe(SubSeq(s, 1, 10))
  /\ \E t \in {0, 6, 9} : \E z \in {0, 1, 6} :
       /\ Len(s) = 10 + t + z
       /\ (t > 0 => timePartRe(SubSeq(s, 11, 10 + t)))
       /\ (z > 0 => zonePartRe(SubSeq(s, 11 + t, Len(s))))

\* the number of elements of a sequence that satisfy Test
CountIf(seq, Test(_)) == Cardinality({i \in 1..Len(seq) : Test(seq[i])})

BOOL_MIN_RATIO == <<95, 100>>
DATE_MIN_RATIO == <<8, 10>>
SAMPLE_ROWS == 1000

Guess(a, b, dl) == [affinity |-> a, isBool |-> b, isDateLike |-> dl]

\* lib/sqlite guessAffinity: a value that is a boolean token is counted as a
\* boolean only; a blank string counts in nn only
guessAffinity(values) ==
  LET low(v) == toLowerCase(trim(v))
      IsBool(v) == low(v) \in boolTrue \cup boolFalse
      nn == CountIf(values, LAMBDA v : v # <<>>)
      bools == CountIf(values, LAMBDA v : v # <<>> /\ low(v) # <<>> /\ IsBool(v))
      ints == CountIf(values, LAMBDA v : v # <<>> /\ low(v) # <<>> /\ ~IsBool(v)
                                         /\ intRe(low(v)))
      nums == ints + CountIf(values, LAMBDA v : v # <<>> /\ low(v) # <<>> /\ ~IsBool(v)
                                                /\ ~intRe(low(v)) /\ realRe(low(v)))
      dates == CountIf(values, LAMBDA v : v # <<>> /\ low(v) # <<>> /\ ~IsBool(v)
                                          /\ ~intRe(low(v)) /\ ~realRe(low(v))
                                          /\ dateRe(low(v)))
  IN IF nn = 0 THEN Guess("TEXT", FALSE, FALSE)
     ELSE IF Geq(<<bools, nn>>, BOOL_MIN_RATIO) THEN Guess("INTEGER", TRUE, FALSE)
     ELSE IF ints = nn THEN Guess("INTEGER", FALSE, FALSE)
     ELSE IF nums = nn THEN Guess("REAL", FALSE, FALSE)
     ELSE IF Geq(<<dates, nn>>, DATE_MIN_RATIO) THEN Guess("NUMERIC", FALSE, TRUE)
     ELSE Guess("TEXT", FALSE, FALSE)

\* a field the parser left out of a short row: r[h] is undefined
Absent == <<"undefined">>

\* r[h] ?? ""
orEmpty(v) == IF v = Absent THEN <<>> ELSE v

\* the column of header h, one cell per row, an absent cell read as ""
Column(rows, k) == [i \in 1..Len(rows) |-> orEmpty(rows[i][k])]

\* rows.map((r) => r[h])
RawColumn(rows, k) == [i \in 1..Len(rows) |-> rows[i][k]]

\* rows.slice(0, 1000)
sampleOf(rows) ==
  SubSeq(rows, 1, IF Len(rows) < SAMPLE_ROWS THEN Len(rows) ELSE SAMPLE_ROWS)

\* importCsv: NOT NULL / UNIQUE over all rows, on trimmed values
csvNotNull(vals) == \A i \in 1..Len(vals) : trim(vals[i]) # <<>>
csvUnique(vals) ==
  LET ne == SelectSeq(vals, LAMBDA v : trim(v) # <<>>)
  IN /\ ne # <<>>
     /\ \A i, j \in 1..Len(ne) : i # j => trim(ne[i]) # trim(ne[j])

\* importCsv: the natural key id, judged on the values as they are
csvPk(headers, rows) ==
  IF \E k \in 1..Len(headers) : headers[k] = <<"i","d">>
  THEN LET all == Column(rows, CHOOSE k \in 1..Len(headers) : headers[k] = <<"i","d">>)
           notNull == \A i \in 1..Len(all) : trim(all[i]) # <<>>
           uniq == Cardinality({all[i] : i \in 1..Len(all)}) = Len(all)
       IN IF notNull /\ uniq THEN <<"i","d">> ELSE <<>>
  ELSE <<>>

\* importCsv up to the DDL: what it declares for the new table
importCsvSchema(headers, rows) ==
  [cols |-> [k \in 1..Len(headers) |->
               LET g == guessAffinity(Column(sampleOf(rows), k))
               IN [name |-> headers[k], affinity |-> g.affinity, isBool |-> g.isBool,
                   isDateLike |-> g.isDateLike,
                   notNull |-> csvNotNull(Column(rows, k)),
                   unique |-> csvUnique(Column(rows, k))]],
   pk |-> csvPk(headers, rows)]

\* inferSchema: the profile of one column
inferCol(h, vals) ==
  LET raws == SelectSeq([i \in 1..Len(vals) |-> trim(vals[i])], LAMBDA r : r # <<>>)
      empty == Len(vals) - Len(raws)
      nonNull == Len(raws)
      asBool == CountIf(raws, LAMBDA r : toLowerCase(r) \in boolTrue \cup boolFalse)
      asInt == CountIf(raws, intRe)
      asReal == CountIf(raws, LAMBDA r : ~intRe(r) /\ realRe(r))
      asDate == CountIf(raws, dateRe)
      seen == {raws[i] : i \in 1..Len(raws)}
      g == IF nonNull = 0 THEN Guess("TEXT", FALSE, FALSE)
           ELSE IF Geq(<<asBool, nonNull>>, BOOL_MIN_RATIO) THEN Guess("INTEGER", TRUE, FALSE)
           ELSE IF asInt = nonNull THEN Guess("INTEGER", FALSE, FALSE)
           ELSE IF asInt + asReal = nonNull THEN Guess("REAL", FALSE, FALSE)
           ELSE IF Geq(<<asDate, nonNull>>, DATE_MIN_RATIO) THEN Guess("NUMERIC", FALSE, TRUE)
           ELSE Guess("TEXT", FALSE, FALSE)
  IN [name |-> h, affinity |-> g.affinity, isBool |-> g.isBool,
      isDateLike |-> g.isDateLike,
      notNull |-> (empty = 0),
      unique |-> (nonNull > 0 /\ Cardinality(seen) = nonNull)]

\* inferSchema: idLike && unique && notNull && (INTEGER || TEXT)
isPkCandidate(c, table) ==
  /\ \/ toLowerCase(c.name) = <<"i","d">>
     \/ toLowerCase(c.name) = toLowerCase(table) \o <<"_","i","d">>
  /\ c.unique /\ c.notNull
  /\ c.affinity \in {"INTEGER", "TEXT"}

\* inferSchema: cols.find(name is id && notNull && INTEGER), when no candidate
isFallbackPk(c) ==
  toLowerCase(c.name) = <<"i","d">> /\ c.notNull /\ c.affinity = "INTEGER"

\* a variant that looks for a candidate named id before any other
inferSchemaIdFirst(rows, headers, table) ==
  LET cols == [k \in 1..Len(headers) |-> inferCol(headers[k], Column(rows, k))]
      pkCandidates == SelectSeq(cols, LAMBDA c : isPkCandidate(c, table))
      idCandidates == SelectSeq(pkCandidates, LAMBDA c : toLowerCase(c.name) = <<"i","d">>)
      uniqueCols == SelectSeq(cols, LAMBDA c : c.unique /\ c.notNull)
      iId == FirstIndex(cols, isFallbackPk)
  IN [cols |-> cols,
      pk |-> IF idCandidates # <<>> THEN idCandidates[1].name
             ELSE IF pkCandidates # <<>> THEN pkCandidates[1].name
             ELSE IF iId > 0 THEN cols[iId].name ELSE <<>>,
      uniqueCols |-> [i \in 1..Len(uniqueCols) |-> uniqueCols[i].name]]

inferSchema(rows, headers, table) ==
  LET cols == [k \in 1..Len(headers) |-> inferCol(headers[k], Column(rows, k))]
      pkCandidates == SelectSeq(cols, LAMBDA c : isPkCandidate(c, table))
      uniqueCols == SelectSeq(cols, LAMBDA c : c.unique /\ c.notNull)
      iId == FirstIndex(cols, isFallbackPk)
  IN [cols |-> cols,
      pk |-> IF pkCandidates # <<>> THEN pkCandidates[1].name
             ELSE IF iId > 0 THEN cols[iId].name ELSE <<>>,
      uniqueCols |-> [i \in 1..Len(uniqueCols) |-> uniqueCols[i].name]]

(***************************************************************************)
(* Literals: what a cell becomes when its row is inserted.                 *)
(***************************************************************************)
DigitValue == [c \in DigitSet |-> (CHOOSE i \in 1..10 : DigitChars[i] = c) - 1]

RECURSIVE digitsValue(_)
digitsValue(s) ==
  IF s = <<>> THEN 0 ELSE 10 * digitsValue(dropLast(s, 1)) + DigitValue[s[Len(s)]]

RECURSIVE pow10(_)
pow10(n) == IF n = 0 THEN 1 ELSE 10 * pow10(n - 1)

\* a variant that reads the digits and drops the sign
NumberUnsigned(s) ==
  LET u == unsigned(s)
      e == IF \E i \in 1..Len(u) : u[i] \in {"e", "E"}
           THEN CHOOSE i \in 1..Len(u) : u[i] \in {"e", "E"} ELSE Len(u) + 1
      m == SubSeq(u, 1, e - 1)
      dot == IF \E i \in 1..Len(m) : m[i] = "."
             THEN CHOOSE i \in 1..Len(m) : m[i] = "." ELSE Len(m) + 1
      whole == SubSeq(m, 1, dot - 1)
      frac == SubSeq(m, dot + 1, Len(m))
      ex == SubSeq(u, e + 1, Len(u))
      exVal == IF ex = <<>> THEN 0
               ELSE IF ex[1] = "-" THEN 0 - digitsValue(unsigned(ex))
               ELSE digitsValue(unsigned(ex))
      shift == exVal - Len(frac)
      n == digitsValue(whole \o frac)
  IN IF shift >= 0 THEN <<n * pow10(shift), 1>> ELSE <<n, pow10(0 - shift)>>

\* Number(s) of a string that matches intRe or realRe, as a fraction
Number(s) ==
  LET u == unsigned(s)
      e == IF \E i \in 1..Len(u) : u[i] \in {"e", "E"}
           THEN CHOOSE i \in 1..Len(u) : u[i] \in {"e", "E"} ELSE Len(u) + 1
      m == SubSeq(u, 1, e - 1)
      dot == IF \E i \in 1..Len(m) : m[i] = "."
             THEN CHOOSE i \in 1..Len(m) : m[i] = "." ELSE Len(m) + 1
      whole == SubSeq(m, 1, dot - 1)
      frac == SubSeq(m, dot + 1, Len(m))
      ex == SubSeq(u, e + 1, Len(u))
      exVal == IF ex = <<>> THEN 0
               ELSE IF ex[1] = "-" THEN 0 - digitsValue(unsigned(ex))
               ELSE digitsValue(unsigned(ex))
      shift == exVal - Len(frac)
      n == digitsValue(whole \o frac)
      sign == IF s[1] = "-" THEN 0 - 1 ELSE 1
  IN IF shift >= 0 THEN <<sign * n * pow10(shift), 1>> ELSE <<sign * n, pow10(0 - shift)>>

\* SqlValue: null, a number, a string
SqlNull == [kind |-> "null", num |-> <<0, 1>>, text |-> <<>>]
SqlNumber(q) == [kind |-> "number", num |-> q, text |-> <<>>]
SqlText(t) == [kind |-> "text", num |-> <<0, 1>>, text |-> t]

\* a variant that keeps a number an isBool column was given
coerceKeepsNumbers(v, aff, isBool) ==
  LET t == trim(orEmpty(v))
  IN IF t = <<>> THEN SqlNull
     ELSE IF isBool /\ toLowerCase(t) \in boolTrue THEN SqlNumber(<<1, 1>>)
     ELSE IF isBool /\ toLowerCase(t) \in boolFalse THEN SqlNumber(<<0, 1>>)
     ELSE IF aff = "INTEGER" /\ intRe(t) THEN SqlNumber(Number(t))
     ELSE IF isBool THEN SqlNull
     ELSE IF aff = "REAL" /\ (intRe(t) \/ realRe(t)) THEN SqlNumber(Number(t))
     ELSE SqlText(t)

\* lib/sqlite coerceByAffinity, of a cell that is a string, null or undefined
coerceByAffinity(v, aff, isBool) ==
  IF v = Absent THEN SqlNull
  ELSE LET t == trim(v)
       IN IF t = <<>> THEN SqlNull
          ELSE IF isBool
               THEN IF toLowerCase(t) \in boolTrue THEN SqlNumber(<<1, 1>>)
                    ELSE IF toLowerCase(t) \in boolFalse THEN SqlNumber(<<0, 1>>)
                    ELSE SqlNull
          ELSE IF aff = "INTEGER" /\ intRe(t) THEN SqlNumber(Number(t))
          ELSE IF aff = "REAL" /\ (intRe(t) \/ realRe(t)) THEN SqlNumber(Number(t))
          ELSE SqlText(t)

\* a variant that leaves the quotes as they are
replaceQuotesNot(t) == t

\* v.replace(/'/g, "''")
RECURSIVE replaceQuotes(_)
replaceQuotes(t) ==
  IF t = <<>> THEN <<>>
  ELSE (IF t[1] = "'" THEN <<"'", "'">> ELSE <<t[1]>>) \o replaceQuotes(Tail(t))

\* toSqlLiteral
toSqlLiteral(raw, col) ==
  LET v == trim(orEmpty(raw))
  IN IF v = <<>> THEN <<"N","U","L","L">>
     ELSE IF col.isBool
          THEN IF toLowerCase(v) \in boolTrue THEN <<"1">>
               ELSE IF toLowerCase(v) \in boolFalse THEN <<"0">>
               ELSE <<"N","U","L","L">>
     ELSE IF col.affinity = "INTEGER" /\ intRe(v) THEN v
     ELSE IF col.affinity = "REAL" /\ (intRe(v) \/ realRe(v)) THEN v
     ELSE <<"'">> \o replaceQuotes(v) \o <<"'">>

\* what the store keeps of the literal toSqlLiteral(raw, col) in a column of
\* col.affinity: NULL, a bare number, or a quoted text, which a column of a
\* numeric affinity converts when it reads as a number
storedValue(raw, col) ==
  LET lit == toSqlLiteral(raw, col)
      v == trim(orEmpty(raw))
  IN IF lit = <<"N","U","L","L">> THEN SqlNull
     ELSE IF lit[1] # "'" THEN SqlNumber(Number(lit))
     ELSE IF col.affinity # "TEXT" /\ (intRe(v) \/ realRe(v)) THEN SqlNumber(Number(v))
     ELSE SqlText(v)

\* the comparison of a UNIQUE index: two stored values are the same value
sameStored(a, b) ==
  /\ a.kind = b.kind
  /\ a.text = b.text
  /\ a.num[1] * b.num[2] = b.num[1] * a.num[2]

(***************************************************************************)
(* lib/csvUtils: the profile of the import preview.                        *)
(***************************************************************************)
\* /^-?\d+$/
isInt(x) ==
  LET u == IF x # <<>> /\ x[1] = "-" THEN Tail(x) ELSE x
  IN u # <<>> /\ AllDigits(u)

\* /^-?\d+(\.\d+)?$/
isDecimal(x) ==
  LET u == IF x # <<>> /\ x[1] = "-" THEN Tail(x) ELSE x
  IN \/ u # <<>> /\ AllDigits(u)
     \/ \E k \in 2..(Len(u) - 1) :
          /\ u[k] = "."
          /\ AllDigits(SubSeq(u, 1, k - 1)) /\ AllDigits(SubSeq(u, k + 1, Len(u)))

\* (?:[ T]\d{1,2}:\d{2}(?::\d{2})?)?
optTime(s) ==
  \/ s = <<>>
  \/ \E h \in {1, 2} :
       /\ Len(s) \in {h + 4, h + 7}
       /\ s[1] \in {" ", "T"}
       /\ AllDigits(SubSeq(s, 2, h + 1))
       /\ s[h + 2] = ":"
       /\ AllDigits(SubSeq(s, h + 3, h + 4))
       /\ Len(s) = h + 7 => s[h + 5] = ":" /\ AllDigits(SubSeq(s, h + 6, h + 7))

\* three runs of digits of the given lengths with the separator between
\* them, then an optional time
dateOf(s, seps, la, lb, lc, okA(_), okB(_)) ==
  \E a \in la : \E b \in lb : \E c \in lc :
     /\ Len(s) >= a + b + c + 2
     /\ AllDigits(SubSeq(s, 1, a)) /\ okA(SubSeq(s, 1, a))
     /\ s[a + 1] \in seps
     /\ AllDigits(SubSeq(s, a + 2, a + b + 1)) /\ okB(SubSeq(s, a + 2, a + b + 1))
     /\ s[a + b + 2] \in seps
     /\ AllDigits(SubSeq(s, a + b + 3, a + b + c + 2))
     /\ optTime(SubSeq(s, a + b + c + 3, Len(s)))

anyDigits(p) == TRUE

\* 0?[1-9]|1[0-2]
monthRe(p) ==
  \/ Len(p) = 1 /\ p[1] # "0"
  \/ Len(p) = 2 /\ p[1] = "0" /\ p[2] # "0"
  \/ Len(p) = 2 /\ p[1] = "1" /\ p[2] \in {"0", "1", "2"}

\* 0?[1-9]|[12]\d|3[01]
dayRe(p) ==
  \/ Len(p) = 1 /\ p[1] # "0"
  \/ Len(p) = 2 /\ p[1] = "0" /\ p[2] # "0"
  \/ Len(p) = 2 /\ p[1] \in {"1", "2"}
  \/ Len(p) = 2 /\ p[1] = "3" /\ p[2] \in {"0", "1"}

\* YYYY-M-D, YYYY/M/D, YYYY.M.D with an optional time, YYYYMMDD
YEAR_FIRST_VARIANTS(v) ==
  \/ \E sep \in {"-", "/", "."} :
       dateOf(v, {sep}, {4}, {1, 2}, {1, 2}, anyDigits, anyDigits)
  \/ Len(v) = 8 /\ AllDigits(v)

MDY_VARIANTS(v) == dateOf(v, {"/", "-"}, {1, 2}, {1, 2}, {4}, monthRe, dayRe)

DMY_VARIANTS(v) == dateOf(v, {"/", "-"}, {1, 2}, {1, 2}, {4}, dayRe, monthRe)

\* YYYY-MM-DDTHH:MM:SS(.fff)?(Z|+HH:MM)
ISO_VARIANTS(v) ==
  /\ Len(v) >= 20
  /\ datePartRe(SubSeq(v, 1, 10))
  /\ v[11] = "T"
  /\ AllDigits(SubSeq(v, 12, 13)) /\ v[14] = ":"
  /\ AllDigits(SubSeq(v, 15, 16)) /\ v[17] = ":"
  /\ AllDigits(SubSeq(v, 18, 19))
  /\ \E z \in {1, 6} :
       /\ Len(v) >= 19 + z
       /\ zonePartRe(SubSeq(v, Len(v) - z + 1, Len(v)))
       /\ LET frac == SubSeq(v, 20, Len(v) - z)
          IN frac = <<>> \/ (Len(frac) >= 2 /\ frac[1] = "." /\ AllDigits(Tail(frac)))

isDateLike(x) ==
  LET v == trim(x)
  IN /\ v # <<>>
     /\ (YEAR_FIRST_VARIANTS(v) \/ ISO_VARIANTS(v) \/ MDY_VARIANTS(v) \/ DMY_VARIANTS(v))

\* inferColumns: the profile of one column of the preview
inferColumn(h, raw) ==
  LET values == SelectSeq(raw, LAMBDA v : v # Absent)
      ss == SelectSeq([i \in 1..Len(values) |-> trim(values[i])], LAMBDA x : x # <<>>)
      nullCount == Len(values) - Len(ss)
      hasNull == nullCount > 0
      seen == {ss[i] : i \in 1..Len(ss)}
      ints == CountIf(ss, isInt)
      decimals == CountIf(ss, LAMBDA x : ~isInt(x) /\ isDecimal(x))
      dates == CountIf(ss, LAMBDA x : ~isInt(x) /\ ~isDecimal(x) /\ isDateLike(x))
      nonNull == Len(values) - nullCount
  IN [name |-> h,
      type |-> IF nonNull > 0 /\ ints = nonNull THEN "int"
               ELSE IF nonNull > 0 /\ ints + decimals = nonNull THEN "decimal"
               ELSE IF nonNull > 0 /\ dates = nonNull THEN "date"
               ELSE "string",
      nullRate |-> <<nullCount, IF Len(values) = 0 THEN 1 ELSE Len(values)>>,
      unique |-> (~hasNull /\ Cardinality(seen) = nonNull /\ nonNull > 0)]

inferColumns(rows, headers) ==
  [k \in 1..Len(headers) |-> inferColumn(headers[k], RawColumn(rows, k))]

(***************************************************************************)
(* The stores of the model.  Each is a database a user can build with CSV  *)
(* imports and the SQL editor; the tables are in name order.               *)
(***************************************************************************)
n_id == <<"i","d">>
n_user == <<"u","s","e","r">>
n_users == <<"u","s","e","r","s">>
n_orders == <<"o","r","d","e","r","s">>
n_items == <<"i","t","e","m","s">>
n_category == <<"c","a","t","e","g","o","r","y">>
n_pa == <<"p","a">>
n_paid == <<"p","a","i","d">>
n_user_id == <<"u","s","e","r","_","i","d">>
n_userId == <<"u","s","e","r","I","d">>
n_userID == <<"u","s","e","r","I","D">>
n_code == <<"c","o","d","e">>
n_name == <<"n","a","m","e">>
n_email == <<"e","m","a","i","l">>
n_a == <<"a">>
n_b == <<"b">>

Keys == {{1}, {2}}
Refs == {NULL, {1}, {2}}

\* orders.user_id against user.id and users.id, both declared keys
DbTwoParents ==
  << Tbl(n_orders, << Col(n_user_id, 0, 0, Refs) >>, <<>>, MaxChildRows),
     Tbl(n_user, << Col(n_id, 1, 0, Keys) >>, <<>>, MaxParentRows),
     Tbl(n_users, << Col(n_id, 1, 0, Keys) >>, <<>>, MaxParentRows) >>

\* users.id is a plain column: its values may repeat
DbPlainId ==
  << Tbl(n_orders, << Col(n_user_id, 0, 0, Refs) >>, <<>>, MaxChildRows),
     Tbl(n_users, << Col(n_id, 0, 0, Keys) >>, <<>>, MaxParentRows) >>

\* user has neither a key nor an id column; users has a declared key
DbKeyless ==
  << Tbl(n_orders, << Col(n_user_id, 0, 0, {{1}}) >>, <<>>, MaxParentRows),
     Tbl(n_user, << Col(n_name, 0, 0, {{1}}) >>, <<>>, MaxParentRows),
     Tbl(n_users, << Col(n_id, 1, 0, {{1}}) >>, <<>>, MaxParentRows) >>

\* a table whose key is <table>_id, and one that refers to it
DbSelf ==
  << Tbl(n_user, << Col(n_user_id, 1, 0, Keys) >>, <<>>, MaxParentRows),
     Tbl(n_users, << Col(n_id, 1, 0, Keys), Col(n_user_id, 0, 0, Keys) >>, <<>>,
         MaxParentRows) >>

\* column names with and without an id suffix
DbNames ==
  << Tbl(n_category, << Col(n_id, 1, 0, {{1}}) >>, <<>>, MaxParentRows),
     Tbl(n_items, << Col(n_id, 1, 0, Keys), Col(n_user_id, 0, 0, {{1}}),
                     Col(n_userId, 0, 0, {{1}}), Col(n_userID, 0, 0, {{1}}),
                     Col(n_category, 0, 0, {{1}}), Col(n_paid, 0, 0, {{1}}) >>,
         <<>>, MaxParentRows),
     Tbl(n_pa, << Col(n_id, 1, 0, {{1}}) >>, <<>>, MaxParentRows),
     Tbl(n_user, << Col(n_id, 1, 0, {{1}}) >>, <<>>, MaxParentRows) >>

\* the declared key of users is code; id is another column
DbCodeKey ==
  << Tbl(n_orders, << Col(n_user_id, 0, 0, Keys) >>, <<>>, MaxParentRows),
     Tbl(n_users, << Col(n_code, 1, 0, Keys), Col(n_id, 0, 0, Keys) >>, <<>>,
         MaxParentRows) >>

\* users has UNIQUE (a, b) only
DbPairIndex ==
  << Tbl(n_orders, << Col(n_user_id, 0, 0, Keys) >>, <<>>, MaxParentRows),
     Tbl(n_users, << Col(n_a, 0, 0, Keys), Col(n_b, 0, 0, Keys) >>,
         << Idx(1, <<n_a, n_b>>) >>, MaxParentRows) >>

\* users has a plain index on name and UNIQUE (email), email NOT NULL
DbEmailIndex ==
  << Tbl(n_orders, << Col(n_user_id, 0, 0, Keys) >>, <<>>, MaxParentRows),
     Tbl(n_users, << Col(n_name, 0, 0, {{1}}), Col(n_email, 0, 1, Keys) >>,
         << Idx(0, <<n_name>>), Idx(1, <<n_email>>) >>, MaxParentRows) >>

Databases ==
  {DbTwoParents, DbPlainId, DbKeyless, DbSelf, DbNames, DbCodeKey, DbPairIndex,
   DbEmailIndex}

(***************************************************************************)
(* INSERT: the store refuses a row that breaks NOT NULL, the primary key   *)
(* or a unique index (NULLs never collide).                                *)
(***************************************************************************)
RowsFor(t) ==
  {r \in [1..Len(t.cols) -> UNION {t.cols[i].dom : i \in 1..Len(t.cols)}] :
     \A i \in 1..Len(t.cols) : r[i] \in t.cols[i].dom}

Collides(t, r, cis) ==
  /\ cis # {}
  /\ \A i \in cis : r[i] # NULL
  /\ \E x \in BagToSet(t.rows) : \A i \in cis : x[i] = r[i]

StoreAccepts(t, r) ==
  /\ \A i \in 1..Len(t.cols) : t.cols[i].notnull = 1 => r[i] # NULL
  /\ ~Collides(t, r, {i \in 1..Len(t.cols) : t.cols[i].pk > 0})
  /\ \A k \in 1..Len(t.idx) :
        t.idx[k].unique = 1 =>
          ~Collides(t, r, {ColIndex(t, t.idx[k].cols[j]) : j \in 1..Len(t.idx[k].cols)})

(***************************************************************************)
(* Errors.  An error is the chain of its layers, the outermost first: the  *)
(* error object, then its cause, then the cause of that.  sql.js rejects a *)
(* failing statement with a plain Error.                                   *)
(***************************************************************************)
NoError == <<>>
DriverError == [name |-> "Error", stage |-> "query", table |-> <<>>]

\* new SqliteMetaError(message, cause): the message names the function and,
\* for getUniqueColumns, the table
SqliteMetaError(stage, table, cause) ==
  <<[name |-> "SqliteMetaError", stage |-> stage, table |-> table]>> \o cause

\* inferRelations, getParentKey and inferFkEdges have no try/catch: the
\* rejection of the failing query is the rejection of the call
Propagated(out) == IF out.err THEN <<DriverError>> ELSE NoError

NoResult == [fn |-> "none", table |-> <<>>, out |-> Ok(<<>>)]

NoCsv == [table |-> <<>>, headers |-> <<>>, doms |-> <<>>, rows |-> <<>>, head |-> 0]
NoInferred == [fn |-> "none", cols |-> <<>>, pk |-> <<>>]

Init ==
  /\ db \in Databases
  /\ result = NoResult
  /\ csv = NoCsv
  /\ inferred = NoInferred
  /\ listed = listTables(db)
  /\ thrown = NoError
  /\ hook = NoHook
  /\ conn = NoConn

\* a row is committed; what was inferred before describes the earlier store
InsertRow(i, r) ==
  /\ countRows(db[i]) < db[i].maxRows
  /\ StoreAccepts(db[i], r)
  /\ db' = [db EXCEPT ![i].rows = @ (+) SetToBag({r})]
  /\ result' = NoResult
  /\ thrown' = NoError
  /\ UNCHANGED <<csv, inferred, listed, hook, conn>>

\* useDataRoomViewModel: inferRelations(selected, cols, tables)
CallInferRelations(i) ==
  /\ result' = [fn |-> "inferRelations", table |-> db[i].name,
                out |-> inferRelations(db, db[i].name, db[i].cols, listTables(db))]
  /\ thrown' = Propagated(result'.out)
  /\ UNCHANGED <<db, csv, inferred, listed, hook, conn>>

\* useDashboardData.load: inferFkEdges(names)
CallInferFkEdges ==
  /\ result' = [fn |-> "inferFkEdges", table |-> <<>>,
                out |-> inferFkEdges(db, listTables(db))]
  /\ thrown' = Propagated(result'.out)
  /\ UNCHANGED <<db, csv, inferred, listed, hook, conn>>

\* the ER page: inferForeignKeys(await getTablesMeta(), {...})
CallInferForeignKeys ==
  /\ result' = [fn |-> "inferForeignKeys", table |-> <<>>,
                out |-> inferForeignKeys(getTablesMeta(db), defaultInferOptions)]
  /\ thrown' = NoError
  /\ UNCHANGED <<db, csv, inferred, listed, hook, conn>>

Next ==
  \/ \E i \in 1..Len(db) : \E r \in RowsFor(db[i]) : InsertRow(i, r)
  \/ \E i \in 1..Len(db) : CallInferRelations(i)
  \/ CallInferFkEdges
  \/ CallInferForeignKeys

Spec == Init /\ [][Next]_vars

(***************************************************************************)
(* Many tables: every import adds a table t01, t02, ... with one column    *)
(* user_id and its rows, beside the table user.  A full table holds <<1>>, *)
(* the one partial table <<1,1,1,1,2>> (user.id holds 1 only).             *)
(***************************************************************************)
n_t(k) == <<"t", DigitChars[(k \div 10) + 1], DigitChars[(k % 10) + 1]>>

FullRows == SetToBag({<<{1}>>})
PartialRows == (<<{1}>> :> 4) @@ (<<{2}>> :> 1)

WideTable(k, rows) ==
  [Tbl(n_t(k), << Col(n_user_id, 0, 0, Refs) >>, <<>>, MaxChildRows)
     EXCEPT !.rows = rows]

WideUser ==
  [Tbl(n_user, << Col(n_id, 1, 0, Keys) >>, <<>>, MaxParentRows)
     EXCEPT !.rows = SetToBag({<<{1}>>})]

InitWide ==
  /\ db = << WideUser >>
  /\ result = NoResult
  /\ csv = NoCsv
  /\ inferred = NoInferred
  /\ listed = listTables(db)
  /\ thrown = NoError
  /\ hook = NoHook
  /\ conn = NoConn

\* an import creates the table and its rows in one transaction
ImportTable(rows) ==
  /\ Len(db) <= MaxWideTables
  /\ rows = PartialRows => \A i \in 1..Len(db) : db[i].rows # PartialRows
  /\ db' = SubSeq(db, 1, Len(db) - 1) \o << WideTable(Len(db), rows) >>
             \o << db[Len(db)] >>
  /\ result' = NoResult
  /\ thrown' = NoError
  /\ UNCHANGED <<csv, inferred, listed, hook, conn>>

NextWide ==
  \/ \E rows \in {FullRows, PartialRows} : ImportTable(rows)
  \/ CallInferRelations(1)
  \/ CallInferFkEdges

SpecWide == InitWide /\ [][NextWide]_vars

(***************************************************************************)
(* CSV ingestion: a file of one table is read row by row, then profiled.   *)
(***************************************************************************)
n_t_id == <<"t","_","i","d">>

IdCells == {<<>>, <<"1">>, <<"2">>, <<"3">>, <<" ","1">>, <<"1",".","5">>, <<"x">>, Absent}
FewCells == {<<"1">>, <<"2">>}

\* the cells of a flag column: a boolean token in upper case, an integer that
\* is no token, a blank
FlagCells == {<<"N">>, <<"7">>, <<" ">>}
n_flag == <<"f","l","a","g">>

\* the cells of a key column: an integer, a boolean token, the integer again
\* with a leading zero
KeyCells == {<<"1">>, <<"T">>, <<"0","1">>}

\* a file is read from its start, or from behind HeadRows rows that read 1
CsvFiles ==
  { [table |-> <<"t">>, headers |-> <<n_id>>, doms |-> <<IdCells>>, rows |-> <<>>,
     head |-> 0],
    [table |-> <<"t">>, headers |-> <<n_t_id, n_id>>, doms |-> <<FewCells, FewCells>>,
     rows |-> <<>>, head |-> 0],
    [table |-> <<"t">>, headers |-> <<n_id, n_t_id>>, doms |-> <<FewCells, FewCells>>,
     rows |-> <<>>, head |-> 0],
    [table |-> <<"t">>, headers |-> <<n_flag>>, doms |-> <<FlagCells>>,
     rows |-> [i \in 1..HeadRows |-> << <<"1">> >>], head |-> HeadRows],
    [table |-> <<"t">>, headers |-> <<n_id>>, doms |-> <<KeyCells>>, rows |-> <<>>,
     head |-> 0] }

CsvRowsFor(f) ==
  {r \in [1..Len(f.headers) -> UNION {f.doms[k] : k \in 1..Len(f.headers)}] :
     \A k \in 1..Len(f.headers) : r[k] \in f.doms[k]}

InitCsv ==
  /\ db = <<>>
  /\ result = NoResult
  /\ csv \in CsvFiles
  /\ inferred = NoInferred
  /\ listed = <<>>
  /\ thrown = NoError
  /\ hook = NoHook
  /\ conn = NoConn

\* PapaParse delivers one more row
ReadCsvRow(r) ==
  /\ Len(csv.rows) < csv.head + MaxCsvRows
  /\ csv' = [csv EXCEPT !.rows = Append(@, r)]
  /\ inferred' = NoInferred
  /\ UNCHANGED <<db, result, listed, thrown, hook, conn>>

\* importOne: inferSchema(rows, headers, finalName)
ApplyInferSchema ==
  /\ LET o == inferSchema(csv.rows, csv.headers, csv.table)
     IN inferred' = [fn |-> "inferSchema", cols |-> o.cols, pk |-> o.pk]
  /\ UNCHANGED <<db, result, csv, listed, thrown, hook, conn>>

\* importCsv: the schema it declares (it returns at once on an empty file)
ApplyImportCsv ==
  /\ csv.rows # <<>>
  /\ LET o == importCsvSchema(csv.headers, csv.rows)
     IN inferred' = [fn |-> "importCsv", cols |-> o.cols, pk |-> o.pk]
  /\ UNCHANGED <<db, result, csv, listed, thrown, hook, conn>>

\* the import preview: inferColumns(data, fields)
ApplyInferColumns ==
  /\ inferred' = [fn |-> "inferColumns", cols |-> inferColumns(csv.rows, csv.headers),
                  pk |-> <<>>]
  /\ UNCHANGED <<db, result, csv, listed, thrown, hook, conn>>

NextCsv ==
  \/ \E r \in CsvRowsFor(csv) : ReadCsvRow(r)
  \/ ApplyInferSchema
  \/ ApplyImportCsv
  \/ ApplyInferColumns

SpecCsv == InitCsv /\ [][NextCsv]_vars

(***************************************************************************)
(* Insertion: a cell of a row is turned into a literal (importOne) or into *)
(* a bound value (importCsv) under the profile of its column.              *)
(***************************************************************************)
RawCells ==
  { Absent, <<>>, <<" ">>, <<"1">>, <<"0">>, <<"7">>, <<"-","7">>, <<"+","7">>,
    <<"0","0","7">>, <<" ","4","2"," ">>, <<"t","r","u","e">>, <<"T","R","U","E">>,
    <<"N","o">>, <<"y">>, <<"x">>, <<"1",".","5">>, <<".","5">>, <<"1","e","2">>,
    <<"-","2",".","5","E","-","1">>, <<"'">>, <<"i","t","'","s">>,
    <<"a","'","'","b">>, <<"1","'">>, <<"2","0","2","4","-","0","1","-","0","2">> }

\* the column profiles inferSchema and guessAffinity produce
Profiles ==
  { [name |-> <<"c">>, affinity |-> g[1], isBool |-> g[2], isDateLike |-> g[3],
     notNull |-> nn, unique |-> FALSE] :
      g \in { <<"TEXT", FALSE, FALSE>>, <<"INTEGER", FALSE, FALSE>>,
              <<"INTEGER", TRUE, FALSE>>, <<"REAL", FALSE, FALSE>>,
              <<"NUMERIC", FALSE, TRUE>> },
      nn \in BOOLEAN }

NoLiteral == [fn |-> "none", table |-> <<>>, out |-> Ok(<<>>)]

InitLiteral ==
  /\ db = <<>>
  /\ result = NoLiteral
  /\ csv = NoCsv
  /\ inferred = NoInferred
  /\ listed = <<>>
  /\ thrown = NoError
  /\ hook = NoHook
  /\ conn = NoConn

\* importOne: literals.push(toSqlLiteral(r[c.name], c))
ApplyToSqlLiteral(raw, col) ==
  /\ result' = [fn |-> "toSqlLiteral", table |-> <<>>, out |-> Ok(<<>>),
                raw |-> raw, col |-> col, literal |-> toSqlLiteral(raw, col)]
  /\ UNCHANGED <<db, csv, inferred, listed, thrown, hook, conn>>

\* importCsv: values.push(coerceByAffinity(raw, col.affinity, col.isBool))
ApplyCoerceByAffinity(raw, col) ==
  /\ result' = [fn |-> "coerceByAffinity", table |-> <<>>, out |-> Ok(<<>>),
                raw |-> raw, col |-> col,
                value |-> coerceByAffinity(raw, col.affinity, col.isBool)]
  /\ UNCHANGED <<db, csv, inferred, listed, thrown, hook, conn>>

NextLiteral ==
  \/ \E raw \in RawCells : \E col \in Profiles : ApplyToSqlLiteral(raw, col)
  \/ \E raw \in RawCells : \E col \in Profiles : ApplyCoerceByAffinity(raw, col)

SpecLiteral == InitLiteral /\ [][NextLiteral]_vars

(***************************************************************************)
(* Name similarity: the score of a column base against a table name, as    *)
(* inferForeignKeys and the badge heuristic compute it.                    *)
(***************************************************************************)
\* badgeHeuristics dice: for (const x of A) if (B.has(x)) inter++
dice(a, b) ==
  LET A == bigrams(a)
      B == bigrams(b)
      inter == Cardinality({x \in A : x \in B})
      denom == Cardinality(A) + Cardinality(B)
  IN IF denom = 0 THEN <<0, 1>> ELSE <<2 * inter, denom>>

\* column bases and table names as the schema has them
RawNames ==
  { <<>>, <<"s">>, <<"A">>, <<"b">>, <<"a","b">>, <<"B","a">>, <<"a","a">>,
    <<"a","b","a">>, <<"a","b","a","b">>, n_user, n_users, <<"U","s","e">>,
    n_orders, <<"o","r","d","e","r","_","s">>, n_category,
    <<"C","a","t","e","g","o","r","i","e","s">>, <<"b","o","x","e","s">> }

NoScored == [fn |-> "none", table |-> <<>>, out |-> Ok(<<>>)]

InitDice ==
  /\ db = <<>>
  /\ result = NoScored
  /\ csv = NoCsv
  /\ inferred = NoInferred
  /\ listed = <<>>
  /\ thrown = NoError
  /\ hook = NoHook
  /\ conn = NoConn

\* inferForeignKeys: diceSim(base, normalize(t.name)), base normalized
ApplyDiceSim(x, y) ==
  /\ result' = [fn |-> "diceSim", table |-> <<>>, out |-> Ok(<<>>),
                a |-> normalize(x), b |-> normalize(y),
                score |-> diceSim(normalize(x), normalize(y))]
  /\ UNCHANGED <<db, csv, inferred, listed, thrown, hook, conn>>

\* buildNameBasedBadgeByTable: dice(base, n), both normalized
ApplyDice(x, y) ==
  /\ result' = [fn |-> "dice", table |-> <<>>, out |-> Ok(<<>>),
                a |-> normalize(x), b |-> normalize(y),
                score |-> dice(normalize(x), normalize(y))]
  /\ UNCHANGED <<db, csv, inferred, listed, thrown, hook, conn>>

NextDice ==
  \/ \E x \in RawNames : \E y \in RawNames : ApplyDiceSim(x, y)
  \/ \E x \in RawNames : \E y \in RawNames : ApplyDice(x, y)

SpecDice == InitDice /\ [][NextDice]_vars

(***************************************************************************)
(* Query results: the column names of a SELECT are made unique.            *)
(***************************************************************************)
\* String(n) of a natural number
RECURSIVE numberToString(_)
numberToString(n) ==
  IF n < 10 THEN <<DigitChars[n + 1]>>
  ELSE numberToString(n \div 10) \o <<DigitChars[(n % 10) + 1]>>

\* name ?? `column_${idx + 1}`
headerBase(name, idx) ==
  IF name = Absent
  THEN <<"c","o","l","u","m","n","_">> \o numberToString(idx)
  ELSE name

\* dedupeColumns: the n-th occurrence of a base becomes base_n
dedupeColumns(raw) ==
  [k \in 1..Len(raw) |->
     LET base == headerBase(raw[k], k)
         n == Cardinality({j \in 1..k : headerBase(raw[j], j) = base})
     IN IF n = 1 THEN base ELSE base \o <<"_">> \o numberToString(n)]

HeaderNames ==
  { <<"a">>, <<"a","_","2">>, <<"b">>, Absent, <<"c","o","l","u","m","n","_","2">> }

RawHeaders == UNION {[1..k -> HeaderNames] : k \in 0..MaxHeaders}

NoColumns == [fn |-> "none", table |-> <<>>, out |-> Ok(<<>>)]

InitColumns ==
  /\ db = <<>>
  /\ result = NoColumns
  /\ csv = NoCsv
  /\ inferred = NoInferred
  /\ listed = <<>>
  /\ thrown = NoError
  /\ hook = NoHook
  /\ conn = NoConn

\* getColumnsOnly: dedupeColumns(stmt.getColumnNames())
ApplyDedupeColumns(raw) ==
  /\ result' = [fn |-> "dedupeColumns", table |-> <<>>,
                out |-> Ok(dedupeColumns(raw)), raw |-> raw]
  /\ UNCHANGED <<db, csv, inferred, listed, thrown, hook, conn>>

NextColumns == \E raw \in RawHeaders : ApplyDedupeColumns(raw)

SpecColumns == InitColumns /\ [][NextColumns]_vars

(***************************************************************************)
(* Table names: an import takes a name no table has yet.                   *)
(***************************************************************************)
\* a variant that compares the names as they are written
RECURSIVE nextFreeExact(_, _, _)
nextFreeExact(base, existing, i) ==
  LET cand == base \o <<"_">> \o numberToString(i)
  IN IF cand \notin existing THEN cand ELSE nextFreeExact(base, existing, i + 1)

ensureUniqueTableNameExact(base, names) ==
  LET existing == {names[k] : k \in 1..Len(names)}
  IN IF base \notin existing THEN base ELSE nextFreeExact(base, existing, 2)

\* for (;;) { cand = `${base}_${i}`; if (!existing.has(cand.toLowerCase())) return cand; i++ }
RECURSIVE nextFree(_, _, _)
nextFree(base, existing, i) ==
  LET cand == base \o <<"_">> \o numberToString(i)
  IN IF toLowerCase(cand) \notin existing THEN cand ELSE nextFree(base, existing, i + 1)

\* ensureUniqueTableName(base, existingGetter), names what the getter returns
ensureUniqueTableName(base, names) ==
  LET existing == {toLowerCase(names[k]) : k \in 1..Len(names)}
  IN IF toLowerCase(base) \notin existing THEN base ELSE nextFree(base, existing, 2)

\* the names listTables can return, in name order
TableNames ==
  << <<"T">>, <<"T","_","2">>, <<"t","_","2","_","2">>, <<"t","_","3">>,
     <<"t","_","4">>, <<"u">> >>

BaseNames == {<<"t">>, <<"T">>, <<"t","_","2">>, <<"v">>}

\* the sublists of a list
ListsOf(seq) ==
  {SelectSeq([k \in 1..Len(seq) |-> <<k, seq[k]>>], LAMBDA e : e[1] \in S) :
     S \in SUBSET (1..Len(seq))}

ExistingLists == {[k \in 1..Len(l) |-> l[k][2]] : l \in ListsOf(TableNames)}

NoName == [fn |-> "none", table |-> <<>>, out |-> Ok(<<>>)]

InitNames ==
  /\ db = <<>>
  /\ result = NoName
  /\ csv = NoCsv
  /\ inferred = NoInferred
  /\ listed = <<>>
  /\ thrown = NoError
  /\ hook = NoHook
  /\ conn = NoConn

\* importOne: finalName = await ensureUniqueTableName(cand, listTables)
ApplyEnsureUniqueTableName(base, names) ==
  /\ listed' = names
  /\ result' = [fn |-> "ensureUniqueTableName", table |-> base,
                out |-> Ok(<<ensureUniqueTableName(base, names)>>)]
  /\ UNCHANGED <<db, csv, inferred, thrown, hook, conn>>

NextNames ==
  \E base \in BaseNames : \E names \in ExistingLists :
     ApplyEnsureUniqueTableName(base, names)

SpecNames == InitNames /\ [][NextNames]_vars

(***************************************************************************)
(* useCsvImport: the upload queue.  importAll walks the queue it saw when  *)
(* it was called and awaits importOne for every item not done.  The calls  *)
(* importOne awaits are the places where it can fail; inferSchema is a     *)
(* pure function that throws nowhere.  hook.pc is the place the pair       *)
(* importAll/importOne has reached, hook.i the loop index (from 1).        *)
(***************************************************************************)
MaxUploads == 3

UseCsvImport(uploads, importing, pc, i, calls, rejected) ==
  [name |-> "useCsvImport", uploads |-> uploads, importing |-> importing,
   pc |-> pc, i |-> i, onAfterImport |-> calls, rejected |-> rejected]

InitImport ==
  /\ db = <<>>
  /\ result = NoResult
  /\ csv = NoCsv
  /\ inferred = NoInferred
  /\ listed = <<>>
  /\ thrown = NoError
  /\ hook = UseCsvImport(<<>>, FALSE, "idle", 0, 0, FALSE)
  /\ conn = NoConn

Resting == hook.pc \in {"idle", "returned"}

\* onFilesSelected: setUploads((prev) => [...prev, ...newItems]), one file
onFilesSelected ==
  /\ Resting
  /\ Len(hook.uploads) < MaxUploads
  /\ hook' = [hook EXCEPT !.uploads = Append(@, "queued"), !.pc = "idle"]
  /\ UNCHANGED <<db, result, csv, inferred, listed, thrown, conn>>

\* importAll up to the loop; the button is disabled while importing
importAll ==
  /\ Resting
  /\ ~hook.importing
  /\ Len(hook.uploads) # 0
  /\ hook' = [hook EXCEPT !.importing = TRUE, !.pc = "for", !.i = 1,
                          !.onAfterImport = 0, !.rejected = FALSE]
  /\ UNCHANGED <<db, result, csv, inferred, listed, thrown, conn>>

\* for (let i = 0; i < uploads.length; i++) { if done continue; await importOne(i) }
\* and past the loop: onAfterImport?.()
importAllFor ==
  /\ hook.pc = "for"
  /\ hook' = IF hook.i > Len(hook.uploads)
               THEN [hook EXCEPT !.onAfterImport = @ + 1, !.pc = "finally"]
             ELSE IF hook.uploads[hook.i] = "done"
               THEN [hook EXCEPT !.i = @ + 1]
             ELSE [hook EXCEPT !.pc = "ensureUniqueTableName"]
  /\ UNCHANGED <<db, result, csv, inferred, listed, thrown, conn>>

\* a rejection of importOne is not caught in importAll: control goes to finally
importOneRejects == [hook EXCEPT !.pc = "finally", !.rejected = TRUE]

\* 1) finalName = await ensureUniqueTableName(cand, listTables), before the try
importOneName(ok) ==
  /\ hook.pc = "ensureUniqueTableName"
  /\ hook' = IF ok THEN [hook EXCEPT !.pc = "parse"] ELSE importOneRejects
  /\ UNCHANGED <<db, result, csv, inferred, listed, thrown, conn>>

\* 2) Papa.parse with error: (err) => reject(err), 3) inferSchema, the DDL text;
\* then inside the try: status importing
importOneParse(ok) ==
  /\ hook.pc = "parse"
  /\ hook' = IF ok THEN [hook EXCEPT !.pc = "exec", !.uploads[hook.i] = "importing"]
             ELSE importOneRejects
  /\ UNCHANGED <<db, result, csv, inferred, listed, thrown, conn>>

\* BEGIN, the DDL, the INSERT batches and COMMIT, then status done
importOneExec(ok) ==
  /\ hook.pc = "exec"
  /\ hook' = IF ok THEN [hook EXCEPT !.uploads[hook.i] = "done", !.pc = "for", !.i = @ + 1]
             ELSE [hook EXCEPT !.pc = "catch"]
  /\ UNCHANGED <<db, result, csv, inferred, listed, thrown, conn>>

\* catch (e): ROLLBACK, status error; importOne resolves
importOneCatch ==
  /\ hook.pc = "catch"
  /\ hook' = [hook EXCEPT !.uploads[hook.i] = "error", !.pc = "for", !.i = @ + 1]
  /\ UNCHANGED <<db, result, csv, inferred, listed, thrown, conn>>

\* finally { setImporting(false) }
importAllFinally ==
  /\ hook.pc = "finally"
  /\ hook' = [hook EXCEPT !.importing = FALSE, !.pc = "returned"]
  /\ UNCHANGED <<db, result, csv, inferred, listed, thrown, conn>>

NextImport ==
  \/ onFilesSelected
  \/ importAll
  \/ importAllFor
  \/ \E ok \in BOOLEAN : importOneName(ok)
  \/ \E ok \in BOOLEAN : importOneParse(ok)
  \/ \E ok \in BOOLEAN : importOneExec(ok)
  \/ importOneCatch
  \/ importAllFinally

SpecImport == InitImport /\ [][NextImport]_vars

(***************************************************************************)
(* lib/sqlite: persistence.  The in-memory database is counted by the      *)
(* statements run on it: conn.mem is the number of statements executed,    *)
(* conn.stored the number of statements the bytes in IndexedDB reflect.    *)
(* conn.saves holds, oldest first, the exports whose kvSet is awaited.     *)
(***************************************************************************)
MaxStatements == 3
MaxSaves == 2

Persist(mem, stored, dirty, timer, saves, overlapped) ==
  [name |-> "persist", mem |-> mem, stored |-> stored, dirty |-> dirty,
   saveTimer |-> timer, saves |-> saves, overlapped |-> overlapped]

\* after getDb with persistenceAvailable = true, nothing executed yet
InitSave ==
  /\ db = <<>>
  /\ result = NoResult
  /\ csv = NoCsv
  /\ inferred = NoInferred
  /\ listed = <<>>
  /\ thrown = NoError
  /\ hook = NoHook
  /\ conn = Persist(0, 0, FALSE, FALSE, <<>>, FALSE)

\* saveNow up to its await kvSet: if (!dirty) return; bytes = d.export()
saveNowExports(c) ==
  IF c.dirty THEN [c EXCEPT !.saves = Append(@, c.mem)] ELSE c

\* saveNow after await kvSet(DB_KEY, bytes): dirty = false
saveNowStores(c) ==
  [c EXCEPT !.stored = c.saves[1], !.saves = Tail(@), !.dirty = FALSE]

\* exec (and the tail of importCsv): d.run; dirty = true; saveSoon(), which
\* clears the timer and sets it again
ExecStatement ==
  /\ conn.mem < MaxStatements
  /\ conn' = [conn EXCEPT !.mem = @ + 1, !.dirty = TRUE, !.saveTimer = TRUE,
                          !.overlapped = @ \/ conn.saves # <<>>]
  /\ UNCHANGED <<db, result, csv, inferred, listed, thrown, hook>>

\* the timer of saveSoon fires: void saveNow()
SaveTimerFires ==
  /\ conn.saveTimer
  /\ Len(conn.saves) < MaxSaves
  /\ conn' = saveNowExports([conn EXCEPT !.saveTimer = FALSE])
  /\ UNCHANGED <<db, result, csv, inferred, listed, thrown, hook>>

\* hookAutoSaveOnPageHide: flush on visibilitychange hidden / pagehide
PageHideFlush ==
  /\ Len(conn.saves) < MaxSaves
  /\ conn.dirty
  /\ conn' = saveNowExports(conn)
  /\ UNCHANGED <<db, result, csv, inferred, listed, thrown, hook>>

\* the IndexedDB write of the oldest pending saveNow succeeds
KvSetResolves ==
  /\ conn.saves # <<>>
  /\ conn' = saveNowStores(conn)
  /\ UNCHANGED <<db, result, csv, inferred, listed, thrown, hook>>

NextSave ==
  \/ ExecStatement
  \/ SaveTimerFires
  \/ PageHideFlush
  \/ KvSetResolves

SpecSave == InitSave /\ [][NextSave]_vars

(***************************************************************************)
(* lib/sqlite: the connection.  conn.db is the module-level handle (0 is   *)
(* null, n the n-th Database constructed); every caller of exec goes       *)
(* through getDb, which awaits loadSqlJs and kvGet before it constructs.   *)
(***************************************************************************)
MaxCallers == 3

Callers == 1..MaxCallers

Connection(d, constructed, pc, got, ranOn) ==
  [name |-> "connection", db |-> d, constructed |-> constructed, pc |-> pc,
   got |-> got, ranOn |-> ranOn]

InitConn ==
  /\ db = <<>>
  /\ result = NoResult
  /\ csv = NoCsv
  /\ inferred = NoInferred
  /\ listed = <<>>
  /\ thrown = NoError
  /\ hook = NoHook
  /\ conn = Connection(0, 0, [c \in Callers |-> "idle"], [c \in Callers |-> 0], {})

\* getDb after its awaits: db = new sql.Database(..); return db
getDbResumes(k, c) ==
  [k EXCEPT !.db = k.constructed + 1, !.constructed = @ + 1,
            !.got[c] = k.constructed + 1, !.pc[c] = "resolved"]

\* exec: const d = await getDb(), up to the first await inside getDb
\* if (db) return db; const sql = await loadSqlJs()
ExecCallsGetDb(c) ==
  /\ conn.pc[c] = "idle"
  /\ conn' = IF conn.db # 0
             THEN [conn EXCEPT !.got[c] = conn.db, !.pc[c] = "resolved"]
             ELSE [conn EXCEPT !.pc[c] = "loading"]
  /\ UNCHANGED <<db, result, csv, inferred, listed, thrown, hook>>

\* loadSqlJs and kvGet have resolved for caller c
GetDbConstructs(c) ==
  /\ conn.pc[c] = "loading"
  /\ conn' = getDbResumes(conn, c)
  /\ UNCHANGED <<db, result, csv, inferred, listed, thrown, hook>>

\* exec: d.run(sqlText) on the handle getDb resolved to
ExecRuns(c) ==
  /\ conn.pc[c] = "resolved"
  /\ conn' = [conn EXCEPT !.ranOn = @ \cup {conn.got[c]}, !.pc[c] = "idle"]
  /\ UNCHANGED <<db, result, csv, inferred, listed, thrown, hook>>

NextConn ==
  \E c \in Callers :
     \/ ExecCallsGetDb(c)
     \/ GetDbConstructs(c)
     \/ ExecRuns(c)

SpecConn == InitConn /\ [][NextConn]_vars

(***************************************************************************)
(* useDashboardData: load().  It awaits getTableStats, then the five       *)
(* aggregates under Promise.all, and has no try around either await.  A    *)
(* query of the store resolves or rejects; hook.pc is the place load has   *)
(* reached, hook.pending the aggregates not settled yet.                   *)
(***************************************************************************)
MaxLoads == 3

Aggregates ==
  {"inferFkEdges", "buildTypeDistribution", "buildUniqueRatioTop", "buildPareto",
   "buildCorrelationTop"}

UseDashboardData(loading, pc, pending, loads) ==
  [name |-> "useDashboardData", loading |-> loading, pc |-> pc,
   pending |-> pending, loads |-> loads]

\* useState(true); the effect of the first mount has not run yet
InitLoad ==
  /\ db = <<>>
  /\ result = NoResult
  /\ csv = NoCsv
  /\ inferred = NoInferred
  /\ listed = <<>>
  /\ thrown = NoError
  /\ hook = UseDashboardData(TRUE, "mounted", {}, 0)
  /\ conn = NoConn

\* load(): setLoading(true); await getTableStats()
load ==
  /\ hook.pc \in {"mounted", "resolved", "rejected"}
  /\ hook.loads < MaxLoads
  /\ hook' = [hook EXCEPT !.loading = TRUE, !.pc = "getTableStats", !.loads = @ + 1]
  /\ UNCHANGED <<db, result, csv, inferred, listed, thrown, conn>>

\* getTableStats settles: setTables, setStats, Promise.all([...]) or rejection
loadStats(ok) ==
  /\ hook.pc = "getTableStats"
  /\ hook' = IF ok THEN [hook EXCEPT !.pc = "Promise.all", !.pending = Aggregates]
             ELSE [hook EXCEPT !.pc = "rejected"]
  /\ UNCHANGED <<db, result, csv, inferred, listed, thrown, conn>>

\* one aggregate settles; Promise.all rejects with the first rejection
loadAggregate(a, ok) ==
  /\ hook.pc = "Promise.all"
  /\ a \in hook.pending
  /\ hook' = IF ok THEN [hook EXCEPT !.pending = @ \ {a}]
             ELSE [hook EXCEPT !.pc = "rejected", !.pending = {}]
  /\ UNCHANGED <<db, result, csv, inferred, listed, thrown, conn>>

\* all five resolved: setFkEdges .. setCorrTop; setLoading(false)
loadSets ==
  /\ hook.pc = "Promise.all"
  /\ hook.pending = {}
  /\ hook' = [hook EXCEPT !.loading = FALSE, !.pc = "resolved"]
  /\ UNCHANGED <<db, result, csv, inferred, listed, thrown, conn>>

NextLoad ==
  \/ load
  \/ \E ok \in BOOLEAN : loadStats(ok)
  \/ \E a \in Aggregates : \E ok \in BOOLEAN : loadAggregate(a, ok)
  \/ loadSets

SpecLoad == InitLoad /\ [][NextLoad]_vars

\* the effect of the mount runs, every query of the store settles, and a
\* continuation whose promise has settled runs; reloading is up to the user
FirstLoad == hook.pc = "mounted" /\ load

SpecLoadFair ==
  /\ SpecLoad
  /\ WF_vars(FirstLoad)
  /\ WF_vars(\E ok \in BOOLEAN : loadStats(ok))
  /\ WF_vars(\E a \in Aggregates : \E ok \in BOOLEAN : loadAggregate(a, ok))
  /\ WF_vars(loadSets)

(***************************************************************************)
(* useDataRoomViewModel.  A piece of state (basic, columns, quality,       *)
(* relations, preview) is modelled by the table it was fetched for,        *)
(* NoTable standing for null.  hook.runs holds the runs of the selection   *)
(* effect that await a query, each with its own cancelled flag; pages and  *)
(* extras hold what the pending handlePageChange and handleLoadExtras      *)
(* calls captured when they were called.                                   *)
(***************************************************************************)
RoomTables == {"orders", "users"}
NoTable == "undefined"

UseDataRoomViewModel(selected, shown, loading, runs, pages, extras) ==
  [name |-> "useDataRoomViewModel", selected |-> selected,
   basic |-> shown, columns |-> shown, quality |-> shown, relations |-> shown,
   preview |-> shown, loading |-> loading, runs |-> runs, pages |-> pages,
   extras |-> extras]

Run(t, await, cancelled) == [table |-> t, await |-> await, cancelled |-> cancelled]

InitRoom ==
  /\ db = <<>>
  /\ result = NoResult
  /\ csv = NoCsv
  /\ inferred = NoInferred
  /\ listed = <<>>
  /\ thrown = NoError
  /\ hook = UseDataRoomViewModel(NoTable, NoTable, FALSE, {}, {}, {})
  /\ conn = NoConn

\* setSelected(t) with another table: the cleanup of the effect sets cancelled
\* of the previous run, the effect runs again: setLoading(true), first await
setSelected(t) ==
  /\ t # hook.selected
  /\ hook' = [hook EXCEPT !.selected = t, !.loading = TRUE,
                !.runs = {[r EXCEPT !.cancelled = TRUE] : r \in @}
                           \cup {Run(t, "meta", FALSE)}]
  /\ UNCHANGED <<db, result, csv, inferred, listed, thrown, conn>>

\* the effect after await Promise.all([getBasic, getColumns])
loadMeta(r, ok) ==
  /\ r \in hook.runs
  /\ r.await = "meta"
  /\ hook' = IF r.cancelled THEN [hook EXCEPT !.runs = @ \ {r}]
             ELSE IF ok
               THEN [hook EXCEPT !.basic = r.table, !.columns = r.table,
                                 !.runs = (@ \ {r}) \cup {Run(r.table, "rest", FALSE)}]
             ELSE [hook EXCEPT !.loading = FALSE, !.runs = @ \ {r}]
  /\ UNCHANGED <<db, result, csv, inferred, listed, thrown, conn>>

\* the effect after await Promise.all([getQuality, inferRelations, getPreview])
loadRest(r, ok) ==
  /\ r \in hook.runs
  /\ r.await = "rest"
  /\ hook' = IF r.cancelled THEN [hook EXCEPT !.runs = @ \ {r}]
             ELSE IF ok
               THEN [hook EXCEPT !.quality = r.table, !.relations = r.table,
                                 !.preview = r.table, !.loading = FALSE,
                                 !.runs = @ \ {r}]
             ELSE [hook EXCEPT !.loading = FALSE, !.runs = @ \ {r}]
  /\ UNCHANGED <<db, result, csv, inferred, listed, thrown, conn>>

\* handlePageChange up to await getPreview(selected, page, pageSize)
handlePageChange ==
  /\ hook.selected # NoTable
  /\ hook' = [hook EXCEPT !.pages = @ \cup {hook.selected}]
  /\ UNCHANGED <<db, result, csv, inferred, listed, thrown, conn>>

\* handlePageChange after the await: setPreview(p); a rejection writes nothing
pageSettles(t, ok) ==
  /\ t \in hook.pages
  /\ hook' = IF ok THEN [hook EXCEPT !.preview = t, !.pages = @ \ {t}]
             ELSE [hook EXCEPT !.pages = @ \ {t}]
  /\ UNCHANGED <<db, result, csv, inferred, listed, thrown, conn>>

\* handleLoadExtras up to its await; the callback holds the columns it closed over
handleLoadExtras ==
  /\ hook.selected # NoTable
  /\ hook.columns # NoTable
  /\ hook' = [hook EXCEPT !.extras = @ \cup {hook.columns}]
  /\ UNCHANGED <<db, result, csv, inferred, listed, thrown, conn>>

\* handleLoadExtras after the await: setColumns(columns.map(..)); catch logs
extrasSettle(c, ok) ==
  /\ c \in hook.extras
  /\ hook' = IF ok THEN [hook EXCEPT !.columns = c, !.extras = @ \ {c}]
             ELSE [hook EXCEPT !.extras = @ \ {c}]
  /\ UNCHANGED <<db, result, csv, inferred, listed, thrown, conn>>

AllRuns == {Run(t, a, c) : t \in RoomTables, a \in {"meta", "rest"}, c \in BOOLEAN}

NextRoom ==
  \/ \E t \in RoomTables : setSelected(t)
  \/ \E r \in AllRuns : \E ok \in BOOLEAN : loadMeta(r, ok)
  \/ \E r \in AllRuns : \E ok \in BOOLEAN : loadRest(r, ok)
  \/ handlePageChange
  \/ \E t \in RoomTables : \E ok \in BOOLEAN : pageSettles(t, ok)
  \/ handleLoadExtras
  \/ \E c \in RoomTables : \E ok \in BOOLEAN : extrasSettle(c, ok)

SpecRoom == InitRoom /\ [][NextRoom]_vars

(***************************************************************************)
(* Failing queries.  A table can be dropped after the page listed the      *)
(* tables, so that a call runs on names the store no longer has; and the   *)
(* store can reject one query of a metadata pass.                          *)
(***************************************************************************)
NoFault == [stage |-> "none", table |-> <<>>]

\* the queries of getTablesMeta that can be the one rejected
FaultPoints(d) ==
  {NoFault, [stage |-> "listTables", table |-> <<>>]}
    \cup {[stage |-> st, table |-> d[i].name] :
            st \in {"table_info", "getUniqueColumns"}, i \in 1..Len(d)}

\* getUniqueColumns: catch (e) { throw new SqliteMetaError(..., e) }
getUniqueColumnsThrows(table) ==
  SqliteMetaError("getUniqueColumns", table, <<DriverError>>)

\* a variant that rethrows what it caught
getTablesMetaRethrows(f) ==
  IF f.stage = "getUniqueColumns" THEN getUniqueColumnsThrows(f.table)
  ELSE <<DriverError>>

\* getTablesMeta: catch (e) { throw new SqliteMetaError(..., e) }
getTablesMetaThrows(f) ==
  SqliteMetaError("getTablesMeta", <<>>,
                  IF f.stage = "getUniqueColumns" THEN getUniqueColumnsThrows(f.table)
                  ELSE <<DriverError>>)

\* getTablesMeta on a store that rejects the query f
getTablesMetaUnder(d, f) ==
  IF f = NoFault THEN [out |-> Ok(getTablesMeta(d)), thrown |-> NoError]
  ELSE [out |-> Failed, thrown |-> getTablesMetaThrows(f)]

FaultDatabases == {DbNames, DbSelf, DbKeyless}

InitFault ==
  /\ db \in FaultDatabases
  /\ result = NoResult
  /\ csv = NoCsv
  /\ inferred = NoInferred
  /\ listed = listTables(db)
  /\ thrown = NoError
  /\ hook = NoHook
  /\ conn = NoConn

\* DROP TABLE from the SQL editor
DropTable(i) ==
  /\ db' = SubSeq(db, 1, i - 1) \o SubSeq(db, i + 1, Len(db))
  /\ result' = NoResult
  /\ thrown' = NoError
  /\ UNCHANGED <<csv, inferred, listed, hook, conn>>

\* the page lists the tables again
Relist ==
  /\ listed # listTables(db)
  /\ listed' = listTables(db)
  /\ result' = NoResult
  /\ thrown' = NoError
  /\ UNCHANGED <<db, csv, inferred, hook, conn>>

\* useDataRoomViewModel: inferRelations(selected, cols, tables) with the
\* table list the page holds
CallInferRelationsListed(i) ==
  /\ result' = [fn |-> "inferRelations", table |-> db[i].name,
                out |-> inferRelations(db, db[i].name, db[i].cols, listed)]
  /\ thrown' = Propagated(result'.out)
  /\ UNCHANGED <<db, csv, inferred, listed, hook, conn>>

\* useDashboardData.load: inferFkEdges(names) with the names listed before
CallInferFkEdgesListed ==
  /\ result' = [fn |-> "inferFkEdges", table |-> <<>>,
                out |-> inferFkEdges(db, listed)]
  /\ thrown' = Propagated(result'.out)
  /\ UNCHANGED <<db, csv, inferred, listed, hook, conn>>

\* the ER page: getTablesMeta(), one of whose queries may be rejected
CallGetTablesMeta(f) ==
  /\ LET r == getTablesMetaUnder(db, f)
     IN /\ result' = [fn |-> "getTablesMeta", table |-> <<>>, out |-> r.out,
                      fault |-> f]
        /\ thrown' = r.thrown
  /\ UNCHANGED <<db, csv, inferred, listed, hook, conn>>

NextFault ==
  \/ \E i \in 1..Len(db) : \E r \in RowsFor(db[i]) : InsertRow(i, r)
  \/ \E i \in 1..Len(db) : DropTable(i)
  \/ Relist
  \/ \E i \in 1..Len(db) : CallInferRelationsListed(i)
  \/ CallInferFkEdgesListed
  \/ \E f \in FaultPoints(db) : CallGetTablesMeta(f)

SpecFault == InitFault /\ [][NextFault]_vars

(***************************************************************************)
(* Properties.                                                             *)
(***************************************************************************)
Profiled == inferred.fn \in {"inferSchema", "importCsv"}
CsvColumn(k) == Column(csv.rows, k)
IntegerOnly(vals) ==
  /\ \E i \in 1..Len(vals) : trim(vals[i]) # <<>>
  /\ \A i \in 1..Len(vals) : trim(vals[i]) # <<>> => intRe(trim(vals[i]))

\* C1: a column that has a non-empty value and whose non-empty values all
\* match the integer pattern is given affinity INTEGER, by importCsv
\* (guessAffinity) and by inferSchema.
C1_IntegerAffinity ==
  Profiled =>
    \A k \in 1..Len(csv.headers) :
      IntegerOnly(CsvColumn(k)) => inferred.cols[k].affinity = "INTEGER"

\* C1 for inferSchema alone
C1_InferSchemaOnly == inferred.fn = "inferSchema" => C1_IntegerAffinity

PkColumn == inferred.cols[CHOOSE k \in 1..Len(inferred.cols) :
                            inferred.cols[k].name = inferred.pk]

\* C5: a selected primary key is a column that is notNull and unique over
\* the profiled rows and has affinity INTEGER or TEXT.
C5_PrimaryKeyProfile ==
  (Profiled /\ inferred.pk # <<>>) =>
    /\ PkColumn.notNull
    /\ PkColumn.unique
    /\ PkColumn.affinity \in {"INTEGER", "TEXT"}

\* C5 when the key is one of inferSchema's candidates, not its fallback
C5_CandidateOnly ==
  (inferred.fn = "inferSchema" /\ inferred.pk # <<>> /\ ~isFallbackPk(PkColumn))
    => C5_PrimaryKeyProfile

(***************************************************************************)
(* Relationship inference: what a call returned, read against the store    *)
(* it ran on (a call leaves the store alone, an insert drops the result).  *)
(***************************************************************************)
Answered == result.fn # "none" /\ ~result.out.err
Measured == result.fn \in {"inferRelations", "inferFkEdges"} /\ ~result.out.err
Returned == result.out.list

FromTable(r) == IF "source" \in DOMAIN r THEN r.source ELSE r.fromTable
FromColumn(r) == IF "col" \in DOMAIN r THEN r.col ELSE r.fromColumn
ToTable(r) == IF "target" \in DOMAIN r THEN r.target ELSE r.toTable
KeyColumn(r) == IF "toColumn" \in DOMAIN r THEN r.toColumn ELSE fkPkCol(db, r.target)

Pos(seq, x) == CHOOSE i \in 1..Len(seq) : seq[i] = x
Among(seq, x) == \E i \in 1..Len(seq) : seq[i] = x

\* the (table, column) pairs a call looks at
ScopeTables ==
  {i \in 1..Len(db) : result.fn = "inferRelations" => db[i].name = result.table}
Scope ==
  UNION {{<<db[i].name, db[i].cols[k].name>> : k \in 1..Len(db[i].cols)} :
           i \in ScopeTables}

HasRel(T, c) ==
  \E i \in 1..Len(Returned) :
     FromTable(Returned[i]) = T /\ FromColumn(Returned[i]) = c

\* the rows of T whose c is not NULL, and those of them whose value is the
\* key value of at least one row of P
NonNullRows(T, c) ==
  LET t == TableOf(db, T)
      S == {r \in BagToSet(t.rows) : r[ColIndex(t, c)] # NULL}
  IN SumOver(S, [r \in S |-> CopiesIn(r, t.rows)])

MatchedRows(T, c, P, key) ==
  LET t == TableOf(db, T)
      p == TableOf(db, P)
      ci == ColIndex(t, c)
      ki == ColIndexCI(p, key)
      S == {r \in BagToSet(t.rows) :
              r[ci] # NULL /\ \E x \in BagToSet(p.rows) : x[ki] = r[ci]}
  IN SumOver(S, [r \in S |-> CopiesIn(r, t.rows)])

\* what the coverage query of the two measuring inferers returns
JoinCounts(T, c, P, key) ==
  LET t == TableOf(db, T)
      p == TableOf(db, P)
  IN leftJoinCounts(t, ColIndex(t, c), p, ColIndexCI(p, key))

Ratio(q) == IF q.total = 0 THEN <<0, 1>> ELSE <<q.matched, q.total>>

\* the column rule, the parents and the key of the inferer that was called
IsCandidate(c) ==
  IF result.fn = "inferRelations" THEN relIsFkCol(c)
  ELSE IF result.fn = "inferFkEdges" THEN fkIsCandidate(c)
  ELSE fkeyIsCandidate(c, defaultInferOptions)

ParentsOf(T, c) ==
  IF result.fn = "inferRelations" THEN relCandidates(T, c, listTables(db))
  ELSE fkParents(listTables(db), c)

KeyOf(P) ==
  IF result.fn = "inferRelations" THEN getParentKey(db, P).key ELSE fkPkCol(db, P)

CoverageOf(T, c, P) == Ratio(JoinCounts(T, c, P, KeyOf(P)))

\* P has a key column and the query over it gives coverage >= 0.8
Accepts(T, c, P) ==
  /\ KeyOf(P) # NoKey
  /\ HasColCI(TableOf(db, P), KeyOf(P))
  /\ Geq(CoverageOf(T, c, P), <<8, 10>>)

AcceptedPairs ==
  {tc \in Scope :
     /\ IsCandidate(tc[2])
     /\ \E k \in 1..Len(ParentsOf(tc[1], tc[2])) :
           Accepts(tc[1], tc[2], ParentsOf(tc[1], tc[2])[k])}

\* the first accepting parent of an accepted pair
FirstAccepting(T, c) ==
  LET ps == ParentsOf(T, c)
  IN ps[CHOOSE k \in 1..Len(ps) :
          /\ Accepts(T, c, ps[k])
          /\ \A j \in 1..(k - 1) : ~Accepts(T, c, ps[j])]

AtMostOnePerColumn ==
  \A i, j \in 1..Len(Returned) :
     (FromTable(Returned[i]) = FromTable(Returned[j])
        /\ FromColumn(Returned[i]) = FromColumn(Returned[j])) => i = j

\* C2: a relationship is returned by inferRelations and inferFkEdges only
\* if the child column has a non-null value and at least 0.8 of its non-null
\* rows have a matching parent row (4 of 4 may be returned, 3 of 4 not).
C2_CoverageThreshold ==
  Measured =>
    \A i \in 1..Len(Returned) :
       LET r == Returned[i]
           total == NonNullRows(FromTable(r), FromColumn(r))
           matched == MatchedRows(FromTable(r), FromColumn(r), ToTable(r), KeyColumn(r))
       IN total > 0 /\ 10 * matched >= 8 * total

\* C2 on the counts the coverage query returns, in place of the rows
C2_QueryThreshold ==
  Measured =>
    \A i \in 1..Len(Returned) :
       LET r == Returned[i]
           q == JoinCounts(FromTable(r), FromColumn(r), ToTable(r), KeyColumn(r))
       IN q.total > 0 /\ 10 * q.matched >= 8 * q.total

C4_CoverageCounts ==
  Measured =>
    \A i \in 1..Len(Returned) :
       LET r == Returned[i]
       IN /\ r.total = NonNullRows(FromTable(r), FromColumn(r))
          /\ r.matched = MatchedRows(FromTable(r), FromColumn(r), ToTable(r), KeyColumn(r))
          /\ r.matched <= r.total

\* the name rule of C6 and the name rules of the code
EndsUnderscoreId(c) == endsWith(toLowerCase(c), <<"_","i","d">>)
EndsCamelId(c) == endsWith(c, <<"I","d">>) \/ endsWith(c, <<"I","D">>)
EndsId(c) == endsWith(toLowerCase(c), <<"i","d">>)

RECURSIVE DropUnderscores(_)
DropUnderscores(s) ==
  IF s # <<>> /\ s[Len(s)] = "_" THEN DropUnderscores(dropLast(s, 1)) ELSE s

\* the name a column refers to: lower case, without the id suffix
BaseOf(c) == DropUnderscores(dropLast(toLowerCase(c), 2))

\* another table named as the column's base, with a declared key that every
\* non-null value of the column (there is one) is found in
StrongParent(T, c) ==
  \E i \in 1..Len(db) :
     /\ db[i].name # T
     /\ toLowerCase(db[i].name) = BaseOf(c)
     /\ \E k \in 1..Len(db[i].cols) :
           /\ db[i].cols[k].pk = 1
           /\ NonNullRows(T, c) > 0
           /\ MatchedRows(T, c, db[i].name, db[i].cols[k].name) = NonNullRows(T, c)

C7_NoSelfReference ==
  Answered =>
    \A i \in 1..Len(Returned) : ToTable(Returned[i]) # FromTable(Returned[i])

\* the key columns C8 allows for P: the declared key; else id; else the
\* column of a single-column unique index; else a column all of whose values
\* are distinct and non-null; else none
ClaimedKeys(P) ==
  LET t == TableOf(db, P)
      K == 1..Len(t.cols)
      pks == {t.cols[k].name : k \in {j \in K : t.cols[j].pk = 1}}
      ids == {t.cols[k].name : k \in {j \in K : t.cols[j].name = n_id}}
      uqs == {t.idx[k].cols[1] :
                k \in {j \in 1..Len(t.idx) :
                         t.idx[j].unique = 1 /\ Len(t.idx[j].cols) = 1}}
      dis == {t.cols[k].name :
                k \in {j \in K : countRows(t) > 0
                                 /\ countDistinctNonNull(t, j) = countRows(t)}}
  IN IF pks # {} THEN pks
     ELSE IF ids # {} THEN ids
     ELSE IF uqs # {} THEN uqs
     ELSE dis

\* C8: the key column of a returned relationship's parent is chosen in the
\* order declared key, id, single-column unique column, all-distinct column.
C8_ParentKeyOrder ==
  Answered =>
    \A i \in 1..Len(Returned) :
       KeyColumn(Returned[i]) \in ClaimedKeys(ToTable(Returned[i]))

\* the tables the called inferer matches by name to column c of T
NameMatched(T, c) ==
  IF result.fn = "inferForeignKeys"
  THEN {db[i].name :
          i \in {j \in 1..Len(db) :
                   /\ db[j].name # T
                   /\ Geq(diceSim(fkeyBase(c), normalize(db[j].name)),
                          defaultInferOptions.nameHintMinSim)}}
  ELSE {ParentsOf(T, c)[k] : k \in 1..Len(ParentsOf(T, c))}

\* a name-matched parent with a key the inferer can use and (where coverage
\* is measured) an accepted coverage
KeyedParent(T, c) ==
  IF result.fn = "inferForeignKeys"
  THEN LET metas == getTablesMeta(db)
       IN \E i \in 1..Len(metas) :
             metas[i].name \in NameMatched(T, c) /\ uniqueMapOf(metas[i]) # <<>>
  ELSE \E P \in NameMatched(T, c) : Accepts(T, c, P)

\* C9: when a name-matched parent of a column has no key column at all, the
\* call does not fail, and the column still gets its relationship if another
\* name-matched parent has a key (and accepted coverage).
C9_KeylessParentDiscarded ==
  result.fn # "none" =>
    \A tc \in Scope :
       (IsCandidate(tc[2]) /\ \E P \in NameMatched(tc[1], tc[2]) : ClaimedKeys(P) = {})
         => /\ ~result.out.err
            /\ KeyedParent(tc[1], tc[2]) => HasRel(tc[1], tc[2])

\* C10: every child column that has an accepted parent has its relationship
\* in the returned list, however many there are: as stated.
C10_AllReturned ==
  Measured => \A tc \in AcceptedPairs : HasRel(tc[1], tc[2])

Smaller(a, b) == IF a < b THEN a ELSE b

\* the edge inferFkEdges builds for an accepted pair
EdgeOf(tc) ==
  LET P == FirstAccepting(tc[1], tc[2])
  IN Edge(tc[1], P, tc[2], JoinCounts(tc[1], tc[2], P, KeyOf(P)))

\* C10, amended: inferRelations returns the relationship of every accepted
\* column of its table; inferFkEdges returns the accepted edges in the order
\* coverage, then matched, both descending, and only the first 30 of them.
C10_ReturnedEdges ==
  Measured =>
    /\ \A i \in 1..Len(Returned) :
          <<FromTable(Returned[i]), FromColumn(Returned[i])>> \in AcceptedPairs
    /\ result.fn = "inferRelations" => \A tc \in AcceptedPairs : HasRel(tc[1], tc[2])
    /\ result.fn = "inferFkEdges" =>
         /\ Len(Returned) = Smaller(Cardinality(AcceptedPairs), EDGE_LIMIT)
         /\ \A i, j \in 1..Len(Returned) : i < j => ~fkBefore(Returned[j], Returned[i])
         /\ \A tc \in AcceptedPairs :
               ~HasRel(tc[1], tc[2]) =>
                 \A i \in 1..Len(Returned) : ~fkBefore(EdgeOf(tc), Returned[i])

\* more than 30 edges were accepted and 30 were returned
C10_MoreThanLimit ==
  /\ Measured
  /\ result.fn = "inferFkEdges"
  /\ Cardinality(AcceptedPairs) > EDGE_LIMIT
  /\ Len(Returned) = EDGE_LIMIT

(***************************************************************************)
(* Failing queries: what a call that met one returned and threw.           *)
(***************************************************************************)
Rejected == result.out.err /\ result.out.list = <<>> /\ thrown # NoError

\* inferRelations asks getParentKey for every candidate: the count query of a
\* candidate that was dropped fails
RelQueryFails ==
  \E k \in 1..Len(TableOf(db, result.table).cols) :
     LET c == TableOf(db, result.table).cols[k].name
         ps == relCandidates(result.table, c, listed)
     IN /\ EndsUnderscoreId(c)
        /\ \E j \in 1..Len(ps) : ~HasTable(db, ps[j])

\* the coverage query of the first parent of candidate column pairs[k] fails:
\* the parent was dropped, or has neither a declared key nor an id column
FkFirstQueryFails(pairs, k) ==
  LET ps == fkParents(listed, pairs[k][2])
  IN /\ HasTable(db, pairs[k][1])
     /\ fkIsCandidate(pairs[k][2])
     /\ ps # <<>>
     /\ \/ ~HasTable(db, ps[1])
        \/ ~HasColCI(TableOf(db, ps[1]), fkPkCol(db, ps[1]))

FkQueryFails ==
  \E k \in 1..Len(fkColumns(db, listed)) : FkFirstQueryFails(fkColumns(db, listed), k)

\* C11: when a query of a relationship-inference or metadata pass fails, the
\* call fails as a whole: it is rejected with an error and the caller gets
\* no list, not even the part that was built before the failure.
C11_WholeCallFails ==
  /\ (result.fn = "inferRelations" /\ RelQueryFails) => Rejected
  /\ (result.fn = "inferFkEdges" /\ FkQueryFails) => Rejected
  /\ (result.fn = "getTablesMeta" /\ result.fault # NoFault) => Rejected
  /\ result.out.err => Rejected
  /\ ~result.out.err => thrown = NoError

\* inferFkEdges was rejected by a failing query after an earlier column's
\* parent had been accepted
C11_FailsAfterAccepting ==
  /\ result.fn = "inferFkEdges"
  /\ Rejected
  /\ LET pairs == fkColumns(db, listed)
     IN \E k \in 1..Len(pairs) :
           /\ FkFirstQueryFails(pairs, k)
           /\ \E j \in 1..(k - 1) :
                 LET ps == fkParents(listed, pairs[j][2])
                 IN /\ fkIsCandidate(pairs[j][2])
                    /\ ps # <<>>
                    /\ HasTable(db, ps[1])
                    /\ HasColCI(TableOf(db, ps[1]), fkPkCol(db, ps[1]))
                    /\ Geq(Ratio(JoinCounts(pairs[j][1], pairs[j][2], ps[1],
                                            fkPkCol(db, ps[1]))), <<8, 10>>)

ProfiledCells(k) ==
  Column(IF inferred.fn = "importCsv" THEN sampleOf(csv.rows) ELSE csv.rows, k)

\* the cells that are not empty once trimmed
NonEmpty(vals) == SelectSeq(vals, LAMBDA v : trim(v) # <<>>)

IsBoolToken(v) == toLowerCase(trim(v)) \in boolTrue \cup boolFalse

BoolTokens(vals) == SelectSeq(vals, IsBoolToken)

BooleanByRatio(k) ==
  LET ne == NonEmpty(ProfiledCells(k))
  IN ne # <<>> =>
       ((inferred.cols[k].affinity = "INTEGER" /\ inferred.cols[k].isBool)
          <=> 100 * Len(BoolTokens(ne)) >= 95 * Len(ne))

\* C13: a column with a non-empty value is INTEGER with isBool exactly when
\* at least 95 in 100 of its non-empty values are boolean tokens, in
\* guessAffinity and in inferSchema.
C13_BooleanRatio ==
  Profiled => \A k \in 1..Len(inferred.cols) : BooleanByRatio(k)

\* the same for inferSchema alone
C13_InferSchemaRatio ==
  inferred.fn = "inferSchema" => \A k \in 1..Len(inferred.cols) : BooleanByRatio(k)

UniqueByCount(k) ==
  LET ne == NonEmpty(Column(csv.rows, k))
  IN inferred.cols[k].unique
       <=> (ne # <<>> /\ Cardinality({trim(ne[i]) : i \in 1..Len(ne)}) = Len(ne))

\* C14: unique is true exactly when the column has a non-empty value and its
\* non-empty values, trimmed, are pairwise distinct; empty values do not count.
\* In inferSchema, importCsv and inferColumns.
C14_UniqueNonEmpty ==
  inferred.fn # "none" => \A k \in 1..Len(inferred.cols) : UniqueByCount(k)

\* the same for inferSchema and importCsv alone
C14_UniqueInImport ==
  Profiled => \A k \in 1..Len(inferred.cols) : UniqueByCount(k)

\* the supplied cells of column k that are absent or empty once trimmed
EmptyCount(k) ==
  Cardinality({i \in 1..Len(csv.rows) : trim(orEmpty(csv.rows[i][k])) = <<>>})

\* C15: nullRate is in [0,1], is emptyCount / totalCount (0 without values),
\* and is 0 exactly when no supplied value is null, missing or empty once
\* trimmed.
C15_NullRate ==
  inferred.fn = "inferColumns" =>
    \A k \in 1..Len(inferred.cols) :
       LET r == inferred.cols[k].nullRate
           total == Len(csv.rows)
       IN /\ r[2] > 0 /\ 0 <= r[1] /\ r[1] <= r[2]
          /\ IF total = 0 THEN r[1] = 0 ELSE r[1] * total = EmptyCount(k) * r[2]
          /\ r[1] = 0 <=> EmptyCount(k) = 0

\* the same when every row has the field
C15_NoFieldMissing ==
  (\A i \in 1..Len(csv.rows) : \A k \in 1..Len(csv.headers) : csv.rows[i][k] # Absent)
    => C15_NullRate

\* column k of the profile meets the acceptance conditions of a primary key
AcceptablePk(k) ==
  /\ toLowerCase(inferred.cols[k].name) \in {n_id, toLowerCase(csv.table) \o <<"_","i","d">>}
  /\ inferred.cols[k].notNull
  /\ inferred.cols[k].unique
  /\ inferred.cols[k].affinity \in {"INTEGER", "TEXT"}

NamedId(k) == toLowerCase(inferred.cols[k].name) = n_id

Acceptable == {k \in 1..Len(inferred.cols) : AcceptablePk(k)}

\* C16: when a column named id and a column named <table>_id both meet the
\* acceptance conditions, inferSchema selects id, in whatever order the
\* headers are: as stated.
C16_IdBeforeTableId ==
  (inferred.fn = "inferSchema" /\ \E k \in Acceptable : NamedId(k)) =>
     inferred.pk = n_id

\* C16, amended: inferSchema selects at most one column: the acceptable
\* column that comes first in the header list, be it id or <table>_id; when
\* none is acceptable, the first column named id that is notNull and INTEGER;
\* otherwise none.
C16_FirstInHeaderOrder ==
  inferred.fn = "inferSchema" =>
    /\ Cardinality({k \in 1..Len(inferred.cols) : inferred.cols[k].name = inferred.pk}) <= 1
    /\ Acceptable # {} =>
         inferred.pk = inferred.cols[CHOOSE k \in Acceptable :
                                       \A j \in Acceptable : k <= j].name
    /\ Acceptable = {} =>
         LET ids == {k \in 1..Len(inferred.cols) :
                       /\ NamedId(k) /\ inferred.cols[k].notNull
                       /\ inferred.cols[k].affinity = "INTEGER"}
         IN IF ids = {} THEN inferred.pk = <<>>
            ELSE inferred.pk = inferred.cols[CHOOSE k \in ids : \A j \in ids : k <= j].name

\* id and t_id are both acceptable, t_id comes first and is selected
C16_TableIdSelected ==
  /\ inferred.fn = "inferSchema"
  /\ \E k \in Acceptable : NamedId(k)
  /\ \E k \in Acceptable : ~NamedId(k)
  /\ inferred.pk = n_t_id

(***************************************************************************)
(* Literals.                                                               *)
(***************************************************************************)
Coerced == result.fn \in {"toSqlLiteral", "coerceByAffinity"}
NullLiteral == <<"N","U","L","L">>

\* the integer a string of the integer pattern denotes
IntegerValue(v) ==
  IF v[1] = "-" THEN 0 - digitsValue(Tail(v))
  ELSE IF v[1] = "+" THEN digitsValue(Tail(v)) ELSE digitsValue(v)

\* the result of the call, parsed back as an integer, is n
ParsesBackTo(n) ==
  IF result.fn = "toSqlLiteral"
  THEN intRe(result.literal) /\ IntegerValue(result.literal) = n
  ELSE /\ result.value.kind = "number"
       /\ result.value.num[1] = n * result.value.num[2]

C17_NegativeInteger ==
  /\ result.fn = "coerceByAffinity"
  /\ result.raw = <<"-","7">>
  /\ result.col.affinity = "INTEGER" /\ ~result.col.isBool
  /\ result.value.kind = "number"

\* the call returned the null sentinel, 1, 0
IsNullResult ==
  IF result.fn = "toSqlLiteral" THEN result.literal = NullLiteral
  ELSE result.value = SqlNull
IsOne ==
  IF result.fn = "toSqlLiteral" THEN result.literal = <<"1">>
  ELSE result.value = SqlNumber(<<1, 1>>)
IsZero ==
  IF result.fn = "toSqlLiteral" THEN result.literal = <<"0">>
  ELSE result.value = SqlNumber(<<0, 1>>)

TrueTokens ==
  {<<"t","r","u","e">>, <<"1">>, <<"y","e","s">>, <<"y">>, <<"t">>}
FalseTokens ==
  {<<"f","a","l","s","e">>, <<"0">>, <<"n","o">>, <<"n">>, <<"f">>}

RawText == trim(IF result.raw = Absent THEN <<>> ELSE result.raw)

\* C18: an absent value and one that is empty once trimmed give the null
\* sentinel; in an isBoolean column a true token gives 1, a false token 0
\* and every other value the null sentinel; every input has a result.
C18_TotalCoercion ==
  Coerced =>
    /\ RawText = <<>> => IsNullResult
    /\ (RawText # <<>> /\ result.col.isBool) =>
         /\ toLowerCase(RawText) \in TrueTokens => IsOne
         /\ toLowerCase(RawText) \in FalseTokens => IsZero
         /\ toLowerCase(RawText) \notin TrueTokens \cup FalseTokens => IsNullResult
    /\ IF result.fn = "toSqlLiteral" THEN result.literal \in Seq(STRING) /\ result.literal # <<>>
       ELSE result.value.kind \in {"null", "number", "text"}

\* an integer that is no token was dropped in an isBoolean column
C18_AmbiguousDropped ==
  /\ Coerced
  /\ result.col.isBool
  /\ result.raw = <<"7">>
  /\ IsNullResult

\* the text between the delimiters with every doubled quote read as one;
\* <<"?">> when a quote stands alone
RECURSIVE Undoubled(_)
Undoubled(t) ==
  IF t = <<>> THEN <<>>
  ELSE IF t[1] # "'" THEN <<t[1]>> \o Undoubled(Tail(t))
  ELSE IF Len(t) >= 2 /\ t[2] = "'" THEN <<"'">> \o Undoubled(SubSeq(t, 3, Len(t)))
  ELSE <<"?", "?">>

WellQuoted(lit, v) ==
  /\ Len(lit) >= 2
  /\ lit[1] = "'" /\ lit[Len(lit)] = "'"
  /\ Undoubled(SubSeq(lit, 2, Len(lit) - 1)) = v

HasQuote(t) == \E i \in 1..Len(t) : t[i] = "'"

\* C19: a literal of toSqlLiteral is NULL, 1, 0, a bare token of the integer
\* pattern (INTEGER column) or of the integer-or-decimal pattern (REAL
\* column), or the trimmed value between single quotes with every quote in
\* it doubled; a value with a quote in it is never bare.
C19_LiteralForms ==
  result.fn = "toSqlLiteral" =>
    LET lit == result.literal
    IN /\ \/ lit = NullLiteral
          \/ lit \in {<<"1">>, <<"0">>} /\ result.col.isBool
          \/ /\ result.col.affinity = "INTEGER" /\ ~result.col.isBool
             /\ intRe(lit) /\ lit = RawText
          \/ /\ result.col.affinity = "REAL"
             /\ (intRe(lit) \/ realRe(lit)) /\ lit = RawText
          \/ WellQuoted(lit, RawText)
       /\ HasQuote(RawText) => (lit = NullLiteral /\ result.col.isBool) \/ WellQuoted(lit, RawText)

\* a value with quotes in it was quoted
C19_QuoteDoubled ==
  /\ result.fn = "toSqlLiteral"
  /\ result.raw = <<"i","t","'","s">>
  /\ result.literal = <<"'","i","t","'","'","s","'">>

(***************************************************************************)
(* Name similarity.                                                        *)
(***************************************************************************)
\* the score of the last call with its arguments exchanged
Exchanged ==
  IF result.fn = "diceSim" THEN diceSim(result.b, result.a) ELSE dice(result.b, result.a)

\* C20: the Dice similarity of a and b is that of b and a, for all normalized
\* strings, the empty string and one-character strings among them, in
\* diceSim and in dice.
C20_DiceSymmetric ==
  result.fn \in {"diceSim", "dice"} =>
    /\ result.score[2] > 0 /\ Exchanged[2] > 0
    /\ result.score[1] * Exchanged[2] = Exchanged[1] * result.score[2]

\* two names of different length that share some bigrams, not all
C20_PartialOverlap ==
  /\ result.fn = "diceSim"
  /\ Cardinality(bigrams(result.a)) # Cardinality(bigrams(result.b))
  /\ 0 < result.score[1] /\ result.score[1] < result.score[2]

\* the empty string against a one-character string
C20_EmptyAndSingle ==
  /\ result.fn = "dice"
  /\ result.a = <<>> /\ Len(result.b) = 1

(***************************************************************************)
(* Relationship inference: the columns a relationship can start from.      *)
(***************************************************************************)
FromNameCalls == {"inferForeignKeys", "inferFkEdges"}

\* C21: a returned relationship starts from a column whose name has an id
\* suffix (_id in any case, or camel-case Id / ID), never from a column such
\* as category, and never from a column named id, in inferForeignKeys under
\* the default options and in inferFkEdges.
C21_SuffixedColumnsOnly ==
  (Answered /\ result.fn \in FromNameCalls) =>
    \A i \in 1..Len(Returned) :
       /\ EndsUnderscoreId(FromColumn(Returned[i])) \/ EndsCamelId(FromColumn(Returned[i]))
       /\ toLowerCase(FromColumn(Returned[i])) # n_id

\* what does hold: the name ends with the letters id and is not id itself
C21_EndsWithLettersId ==
  (Answered /\ result.fn \in FromNameCalls) =>
    \A i \in 1..Len(Returned) :
       /\ EndsId(FromColumn(Returned[i]))
       /\ toLowerCase(FromColumn(Returned[i])) # n_id
       /\ result.fn = "inferForeignKeys" => EndsUnderscoreId(FromColumn(Returned[i]))

(***************************************************************************)
(* Coverage under inserts.                                                 *)
(***************************************************************************)
\* the step adds to table i one row whose column ci holds a key value of
\* column ki of table j, and leaves table j as it is
AddsMatchingRow(i, ci, j, ki) ==
  /\ Len(db') = Len(db)
  /\ db'[j] = db[j]
  /\ \E r \in RowsFor(db[i]) :
        /\ db'[i] = [db[i] EXCEPT !.rows = @ (+) SetToBag({r})]
        /\ r[ci] # NULL
        /\ joinMatches(db[j], ki, r[ci]) > 0

CoverageIn(d, i, ci, j, ki) == relCoverage(leftJoinCounts(d[i], ci, d[j], ki))

\* C22: for a fixed parent and key, a step that adds a matching row to the
\* child and changes nothing else does not decrease the coverage the query
\* computes.
C22_CoverageMonotonic ==
  [][\A i \in 1..Len(db) : \A j \in 1..Len(db) :
       \A ci \in 1..Len(db[i].cols) : \A ki \in 1..Len(db[j].cols) :
          (i # j /\ AddsMatchingRow(i, ci, j, ki)) =>
             Geq(CoverageIn(db', i, ci, j, ki), CoverageIn(db, i, ci, j, ki))]_vars

\* a child with a row that matches beside one that does not: the coverage
\* is strictly between 0 and 1
C22_MixedChild ==
  \E i \in 1..Len(db) : \E j \in 1..Len(db) :
     \E ci \in 1..Len(db[i].cols) : \E ki \in 1..Len(db[j].cols) :
        LET q == leftJoinCounts(db[i], ci, db[j], ki)
        IN i # j /\ 0 < q.matched /\ q.matched < q.total /\ q.total >= 3

(***************************************************************************)
(* Column headers.                                                         *)
(***************************************************************************)
Distinct(seq) == \A i, j \in 1..Len(seq) : i # j => seq[i] # seq[j]

\* C23: dedupeColumns returns as many names as it was given, pairwise
\* distinct, also when a given name already has the form name_2.
C23_HeadersUnique ==
  result.fn = "dedupeColumns" =>
    /\ Len(result.out.list) = Len(result.raw)
    /\ Distinct(result.out.list)

\* no given name is another given name followed by _ and a number
NoSuffixedInput ==
  \A i, j \in 1..Len(result.raw) :
     LET a == headerBase(result.raw[i], i)
         b == headerBase(result.raw[j], j)
     IN ~(Len(a) > Len(b) + 1 /\ startsWith(a, b \o <<"_">>)
          /\ AllDigits(SubSeq(a, Len(b) + 2, Len(a))))

\* what does hold: the names are distinct when no given name has that form
C23_UniqueFromPlainNames ==
  (result.fn = "dedupeColumns" /\ NoSuffixedInput) =>
    /\ Len(result.out.list) = Len(result.raw)
    /\ Distinct(result.out.list)

(***************************************************************************)
(* Table names.                                                            *)
(***************************************************************************)
\* the listed names, lower case
ListedLower == {toLowerCase(listed[k]) : k \in 1..Len(listed)}

Numbered(base, n) == base \o <<"_">> \o numberToString(n)

\* C24: ensureUniqueTableName returns base when no listed name equals it in
\* any case, otherwise base_N for the least N >= 2 for which no listed name
\* equals base_N in any case; what it returns equals no listed name.
C24_UniqueTableName ==
  result.fn = "ensureUniqueTableName" =>
    LET base == result.table
        name == result.out.list[1]
    IN /\ toLowerCase(name) \notin ListedLower
       /\ IF toLowerCase(base) \notin ListedLower THEN name = base
          ELSE \E n \in 2..(Len(listed) + 2) :
                  /\ name = Numbered(base, n)
                  /\ \A m \in 2..(n - 1) : toLowerCase(Numbered(base, m)) \in ListedLower

\* the base and base_2 are taken under names of another case
C24_NextFreeNumber ==
  /\ result.fn = "ensureUniqueTableName"
  /\ result.table = <<"t">>
  /\ <<"t">> \notin {listed[k] : k \in 1..Len(listed)}
  /\ result.out.list[1] = <<"t","_","5">>

(***************************************************************************)
(* The upload queue.                                                       *)
(***************************************************************************)
ImportAllReturned == hook.name = "useCsvImport" /\ hook.pc = "returned"

Settled == \A k \in 1..Len(hook.uploads) : hook.uploads[k] \in {"done", "error"}

\* C25: once importAll has finished, every item of the queue is done or
\* error, none is queued or importing, importing is false and onAfterImport
\* has been called exactly once, whichever step of an import failed.
C25_QueueSettled ==
  ImportAllReturned => Settled /\ ~hook.importing /\ hook.onAfterImport = 1

\* the same when no importOne was rejected: the failures met were all
\* inside the try of importOne
C25_SettledUnlessRejected ==
  (ImportAllReturned /\ ~hook.rejected) =>
     Settled /\ ~hook.importing /\ hook.onAfterImport = 1

\* importing is false after importAll in every case, and onAfterImport is
\* never called twice
C25_ImportingCleared ==
  ImportAllReturned => ~hook.importing /\ hook.onAfterImport \in {0, 1}

\* a failure inside the try of the first item, the second item done after it
C25_ErrorThenDone ==
  /\ ImportAllReturned
  /\ ~hook.rejected
  /\ Len(hook.uploads) >= 2
  /\ hook.uploads[1] = "error"
  /\ hook.uploads[2] = "done"

(***************************************************************************)
(* Inferred constraints against the rows they were inferred from.          *)
(***************************************************************************)
\* the values the rows of the file store in column k
StoredColumn(k) ==
  [i \in 1..Len(csv.rows) |-> storedValue(csv.rows[i][k], inferred.cols[k])]

NoNullStored(k) == \A i \in 1..Len(csv.rows) : StoredColumn(k)[i] # SqlNull

DistinctStored(k) ==
  \A i, j \in 1..Len(csv.rows) :
     i # j => ~sameStored(StoredColumn(k)[i], StoredColumn(k)[j])

\* the DDL of importOne puts UNIQUE on the columns of uniqueCols and
\* PRIMARY KEY on pk
DeclaredUnique(k) ==
  \/ inferred.cols[k].unique /\ inferred.cols[k].notNull
  \/ inferred.cols[k].name = inferred.pk

\* C26: of the rows inferSchema was given, a column it marks notNull gets no
\* NULL literal, and a column of uniqueCols or the primary key gets pairwise
\* distinct stored values.
C26_InferredConstraintsHold ==
  inferred.fn = "inferSchema" =>
    \A k \in 1..Len(inferred.cols) :
       /\ inferred.cols[k].notNull => NoNullStored(k)
       /\ DeclaredUnique(k) => DistinctStored(k)

\* the same for the columns that are not boolean and hold no number, and are
\* not the primary key of the fallback rule
C26_TextConstraintsHold ==
  inferred.fn = "inferSchema" =>
    \A k \in 1..Len(inferred.cols) :
       (inferred.cols[k].affinity = "TEXT" /\ ~inferred.cols[k].isBool) =>
          /\ inferred.cols[k].notNull => NoNullStored(k)
          /\ DeclaredUnique(k) => DistinctStored(k)

\* NOT NULL alone fails in boolean columns only
C26_NotNullUnlessBoolean ==
  inferred.fn = "inferSchema" =>
    \A k \in 1..Len(inferred.cols) :
       (inferred.cols[k].notNull /\ ~inferred.cols[k].isBool) => NoNullStored(k)

(***************************************************************************)
(* Persistence.                                                            *)
(***************************************************************************)
\* no saveNow is awaiting its write and no timer is pending
Quiet == conn.name = "persist" /\ conn.saves = <<>> /\ ~conn.saveTimer

\* C27: once no save is in flight and no timer is pending, the bytes in
\* IndexedDB are the export of the in-memory database; and dirty = false
\* implies that the stored bytes reflect every statement executed.
C27_NothingUnpersisted ==
  /\ Quiet => conn.stored = conn.mem
  /\ (Quiet /\ ~conn.dirty) => conn.stored = conn.mem

\* the same when no statement ran while a saveNow was awaiting its write
C27_PersistedUnlessOverlapped ==
  (Quiet /\ ~conn.overlapped) => conn.stored = conn.mem

\* the stored bytes are an export of a state the database has been in
C27_StoredIsPast ==
  conn.name = "persist" => conn.stored <= conn.mem

\* a statement ran and was persisted with no overlap
C27_SavedAfterStatement ==
  /\ Quiet
  /\ ~conn.overlapped
  /\ conn.mem = 2
  /\ conn.stored = 2

(***************************************************************************)
(* The connection.                                                         *)
(***************************************************************************)
\* C28: every call of getDb resolves to the same Database, at most one
\* Database is constructed, and no statement runs on another instance than
\* the one later queries and saves use.
C28_Singleton ==
  conn.name = "connection" =>
    /\ conn.constructed <= 1
    /\ \A c \in Callers : conn.pc[c] = "resolved" => conn.got[c] = conn.db
    /\ \A n \in conn.ranOn : n = conn.db

\* a call that finds the handle set resolves to it and constructs nothing
C28_SharedOnceSet ==
  [][\A c \in Callers :
       (conn.name = "connection" /\ conn.db # 0 /\ conn.pc[c] = "idle"
          /\ conn'.pc[c] = "resolved")
       => (conn'.got[c] = conn.db /\ conn'.constructed = conn.constructed)]_vars

(***************************************************************************)
(* The dashboard's load.                                                   *)
(***************************************************************************)
Loading == hook.name = "useDashboardData" /\ hook.pc \in {"getTableStats", "Promise.all"}

\* C29: every invocation of load() eventually sets loading to false, whether
\* the queries succeed or one of them fails.
C29_LoadingEnds == Loading ~> ~hook.loading

\* every invocation of load() settles
C29_LoadSettles == Loading ~> (hook.pc \in {"resolved", "rejected"})

\* loading is false after a load whose queries all succeeded
C29_FalseWhenResolved ==
  (hook.name = "useDashboardData" /\ hook.pc = "resolved") => ~hook.loading

\* loading is true after a load one of whose queries failed
C29_StuckWhenRejected ==
  (hook.name = "useDashboardData" /\ hook.pc = "rejected") => hook.loading

(***************************************************************************)
(* The data room.                                                          *)
(***************************************************************************)
InRoom == hook.name = "useDataRoomViewModel"

NoRequest == InRoom /\ hook.runs = {} /\ hook.pages = {} /\ hook.extras = {}

OfSelected(v) == v \in {NoTable, hook.selected}

\* C30: whenever no request is in flight, the basic, columns, quality,
\* relations and preview shown were fetched for the selected table: no result
\* of a table selected before is written once the selection has changed.
C30_ShownIsSelected ==
  NoRequest =>
    /\ OfSelected(hook.basic)
    /\ OfSelected(hook.columns)
    /\ OfSelected(hook.quality)
    /\ OfSelected(hook.relations)
    /\ OfSelected(hook.preview)

\* what the selection effect writes was fetched for the selected table:
\* basic, quality and relations, which the effect alone writes, change to
\* the selected table only
C30_EffectGuarded ==
  [][InRoom =>
       /\ hook'.basic # hook.basic => hook'.basic = hook'.selected
       /\ hook'.quality # hook.quality => hook'.quality = hook'.selected
       /\ hook'.relations # hook.relations => hook'.relations = hook'.selected]_vars

\* a cancelled run writes nothing
C30_CancelledWritesNothing ==
  [][\A r \in AllRuns :
       (InRoom /\ r \in hook.runs /\ r.cancelled /\ r \notin hook'.runs
          /\ hook'.selected = hook.selected /\ hook'.pages = hook.pages
          /\ hook'.extras = hook.extras)
       => (/\ hook'.basic = hook.basic /\ hook'.columns = hook.columns
           /\ hook'.quality = hook.quality /\ hook'.relations = hook.relations
           /\ hook'.preview = hook.preview /\ hook'.loading = hook.loading)]_vars

====
